---- MODULE Spec2Model ----
(***************************************************************************)
(* SQLite-Visualizer-Library: the SQL autocomplete engine                  *)
(* (src/src/core/sqlAutocomplete.ts, class SQLAutocomplete) and the query  *)
(* history log (src/src/core/database.ts, class QueryHistoryManager), and   *)
(* the history kept by the React provider (src/unnamed/part_003,           *)
(* SQLiteProvider.executeQuery); the QueryBuilder's execute hotkey, the    *)
(* DatabaseManager's life cycle, the MigrationManager, the QueryShareManager *)
(* and the HotkeyManager.                                                  *)
(*                                                                         *)
(* A JavaScript string is a sequence of one-character strings, so that     *)
(* substring, toUpperCase, lastIndexOf, startsWith, trim and the regular   *)
(* expressions of the source are computed character by character.         *)
(***************************************************************************)
EXTENDS Integers, Sequences, FiniteSets, TLC

VARIABLES
    schema,          \* SQLAutocomplete.schema: Null or a DatabaseSchema
    query,           \* the text handed to getSuggestions
    cursorPosition,  \* the cursor offset handed to getSuggestions
    acState,         \* "idle", or "returned" right after getSuggestions returned
    suggestions,     \* the array getSuggestions returned
    history,         \* QueryHistoryManager.history, newest first
    maxHistorySize,  \* QueryHistoryManager.maxHistorySize
    storage,         \* localStorage item 'sqlite-visualizer-history': Null or JSON
    now,             \* the clock read by Date.now(), in seconds
    storageFault,    \* how localStorage behaves: "none", "absent", "readThrows", "writeThrows"
    provider,        \* SQLiteProvider: are the manager refs set, is a database loaded
    lastOp,          \* the operation that ran last, when, and whether it threw to its
                     \* caller; for a construction, the operation that ran before it
    prevHistory,     \* history as it was when that operation began
    steps,           \* operations run so far
    ticks,           \* clock advances so far
    editor,          \* QueryBuilder: the editor text and the text the hotkey closure holds
    dbm,             \* DatabaseManager: sqlJs, db, initialized, and its pending calls
    migrations,      \* MigrationManager.migrations and what its generators returned
    share,           \* QueryShareManager: a query, the link made of it, the query decoded
    hotkeys          \* HotkeyManager: handlers, isEnabled, and the handler last invoked

acVars == <<schema, query, cursorPosition, acState, suggestions>>

envVars == <<storageFault, provider>>

histVars == <<history, maxHistorySize, storage, storageFault, provider, now, lastOp,
              prevHistory, steps, ticks>>

compVars == <<editor, dbm, migrations, share, hotkeys>>

vars == <<schema, query, cursorPosition, acState, suggestions,
          history, maxHistorySize, storage, storageFault, provider, now, lastOp,
          prevHistory, steps, ticks, editor, dbm, migrations, share, hotkeys>>

\* the value of a component's variable while the component is not in use
NotInUse == [inUse |-> FALSE]

CompIdle ==
    /\ editor = NotInUse
    /\ dbm = NotInUse
    /\ migrations = NotInUse
    /\ share = NotInUse
    /\ hotkeys = NotInUse

-----------------------------------------------------------------------------
(* Bounds                                                                  *)

\* tokens per generated query
MaxTokens == 2

\* QueryHistoryManager operations per behaviour
MaxOps == 3

\* clock advances per behaviour
MaxTicks == 2

-----------------------------------------------------------------------------
(* JavaScript values and string primitives                                 *)

Null == [null |-> TRUE]

Min2(a, b) == IF a < b THEN a ELSE b

Max2(a, b) == IF a > b THEN a ELSE b

LowerLetters == <<"a","b","c","d","e","f","g","h","i","j","k","l","m","n","o","p","q","r","s","t","u","v","w","x","y","z">>

UpperLetters == <<"A","B","C","D","E","F","G","H","I","J","K","L","M","N","O","P","Q","R","S","T","U","V","W","X","Y","Z">>

Digits == {"0","1","2","3","4","5","6","7","8","9"}

LowerSet == {LowerLetters[i] : i \in 1..26}

UpperSet == {UpperLetters[i] : i \in 1..26}

ToUpperChar == [c \in LowerSet |-> UpperLetters[CHOOSE i \in 1..26 : LowerLetters[i] = c]]

ToLowerChar == [c \in UpperSet |-> LowerLetters[CHOOSE i \in 1..26 : UpperLetters[i] = c]]

\* String.prototype.toUpperCase / toLowerCase on ASCII text
toUpperCase(s) == [i \in 1..Len(s) |-> IF s[i] \in LowerSet THEN ToUpperChar[s[i]] ELSE s[i]]

toLowerCase(s) == [i \in 1..Len(s) |-> IF s[i] \in UpperSet THEN ToLowerChar[s[i]] ELSE s[i]]

\* the regular-expression classes \w and \s
IsWordChar(c) == c \in LowerSet \/ c \in UpperSet \/ c \in Digits \/ c = "_"

IsSpaceChar(c) == c \in {" ", "\n", "\t"}

\* String.prototype.substring(a, b): both indices are clamped to [0, length]
\* and swapped when a > b
ClampIndex(n, len) == IF n < 0 THEN 0 ELSE IF n > len THEN len ELSE n

\* mutant: String.prototype.slice, whose negative index counts from the end
substringAsSlice(s, a, b) ==
    LET x == IF a < 0 THEN Max2(Len(s) + a, 0) ELSE Min2(a, Len(s))
        y == IF b < 0 THEN Max2(Len(s) + b, 0) ELSE Min2(b, Len(s))
    IN  SubSeq(s, x + 1, y)

substring(s, a, b) ==
    LET x == ClampIndex(a, Len(s))
        y == ClampIndex(b, Len(s))
    IN  SubSeq(s, Min2(x, y) + 1, Max2(x, y))

\* String.prototype.startsWith
startsWith(s, p) == Len(p) <= Len(s) /\ SubSeq(s, 1, Len(p)) = p

\* String.prototype.lastIndexOf(w): scan from the right, 0-based, -1 if absent
RECURSIVE lastIndexFrom(_, _, _)
lastIndexFrom(s, w, i) ==
    IF i < 0 THEN -1
    ELSE IF SubSeq(s, i + 1, i + Len(w)) = w THEN i
    ELSE lastIndexFrom(s, w, i - 1)

lastIndexOf(s, w) == lastIndexFrom(s, w, Len(s) - Len(w))

\* first 1-based index >= j whose character is not of the class; Len(s)+1 if none
RECURSIVE skipSpaces(_, _)
skipSpaces(s, j) ==
    IF j <= Len(s) /\ IsSpaceChar(s[j]) THEN skipSpaces(s, j + 1) ELSE j

RECURSIVE skipWord(_, _)
skipWord(s, j) ==
    IF j <= Len(s) /\ IsWordChar(s[j]) THEN skipWord(s, j + 1) ELSE j

NoMatch == [found |-> FALSE]

\* s.match(/(\w+)$/): the regular expression engine tries the start positions
\* from the left and takes the first from which \w+ reaches the end of s
RECURSIVE matchWordAtEndFrom(_, _)
matchWordAtEndFrom(s, i) ==
    IF i > Len(s) THEN NoMatch
    ELSE IF skipWord(s, i) = Len(s) + 1
         THEN [found |-> TRUE, group1 |-> SubSeq(s, i, Len(s))]
         ELSE matchWordAtEndFrom(s, i + 1)

matchWordAtEnd(s) == matchWordAtEndFrom(s, 1)

\* s.match(/KW\s+(\w+)/) for KW = FROM or JOIN: the leftmost position where KW
\* is followed by at least one white-space character and then a word
RECURSIVE matchKeywordWordFrom(_, _, _)
matchKeywordWordFrom(s, kw, i) ==
    IF i + Len(kw) - 1 > Len(s) THEN NoMatch
    ELSE LET afterKw == i + Len(kw)
             afterWs == skipSpaces(s, afterKw)
             afterWord == skipWord(s, afterWs)
         IN  IF SubSeq(s, i, afterKw - 1) = kw /\ afterWs > afterKw /\ afterWord > afterWs
             THEN [found |-> TRUE, group1 |-> SubSeq(s, afterWs, afterWord - 1)]
             ELSE matchKeywordWordFrom(s, kw, i + 1)

matchKeywordWord(s, kw) == matchKeywordWordFrom(s, kw, 1)

\* concatenation of a sequence of strings
RECURSIVE Concat(_)
Concat(ss) == IF ss = <<>> THEN <<>> ELSE Head(ss) \o Concat(Tail(ss))

-----------------------------------------------------------------------------
(* SQLAutocomplete                                                         *)

\* the keyword vocabulary, in declaration order (NOT is declared twice)
keywords == <<
    <<"S","E","L","E","C","T">>,
    <<"F","R","O","M">>,
    <<"W","H","E","R","E">>,
    <<"J","O","I","N">>,
    <<"I","N","N","E","R">>,
    <<"L","E","F","T">>,
    <<"R","I","G","H","T">>,
    <<"F","U","L","L">>,
    <<"O","U","T","E","R">>,
    <<"O","N">>,
    <<"A","S">>,
    <<"A","N","D">>,
    <<"O","R">>,
    <<"N","O","T">>,
    <<"I","N">>,
    <<"L","I","K","E">>,
    <<"B","E","T","W","E","E","N">>,
    <<"I","S">>,
    <<"N","U","L","L">>,
    <<"O","R","D","E","R">>,
    <<"B","Y">>,
    <<"G","R","O","U","P">>,
    <<"H","A","V","I","N","G">>,
    <<"L","I","M","I","T">>,
    <<"O","F","F","S","E","T">>,
    <<"I","N","S","E","R","T">>,
    <<"I","N","T","O">>,
    <<"V","A","L","U","E","S">>,
    <<"U","P","D","A","T","E">>,
    <<"S","E","T">>,
    <<"D","E","L","E","T","E">>,
    <<"C","R","E","A","T","E">>,
    <<"T","A","B","L","E">>,
    <<"A","L","T","E","R">>,
    <<"D","R","O","P">>,
    <<"I","N","D","E","X">>,
    <<"P","R","I","M","A","R","Y">>,
    <<"K","E","Y">>,
    <<"F","O","R","E","I","G","N">>,
    <<"R","E","F","E","R","E","N","C","E","S">>,
    <<"U","N","I","Q","U","E">>,
    <<"N","O","T">>,
    <<"D","E","F","A","U","L","T">>,
    <<"A","U","T","O","I","N","C","R","E","M","E","N","T">>,
    <<"I","N","T","E","G","E","R">>,
    <<"T","E","X","T">>,
    <<"R","E","A","L">>,
    <<"B","L","O","B">>,
    <<"N","U","M","E","R","I","C">>,
    <<"B","O","O","L","E","A","N">>,
    <<"D","A","T","E">>,
    <<"D","A","T","E","T","I","M","E">>,
    <<"C","O","U","N","T">>,
    <<"S","U","M">>,
    <<"A","V","G">>,
    <<"M","A","X">>,
    <<"M","I","N">>,
    <<"D","I","S","T","I","N","C","T">>,
    <<"E","X","P","L","A","I","N">>,
    <<"Q","U","E","R","Y">>,
    <<"P","L","A","N">>
>>

KwSELECT == <<"S","E","L","E","C","T">>
KwFROM == <<"F","R","O","M">>
KwJOIN == <<"J","O","I","N">>
KwWHERE == <<"W","H","E","R","E">>
KwON == <<"O","N">>

\* mutant: afterFrom does not look at JOIN
getContextFromIgnoresJoin(q) ==
    LET upperQuery == toUpperCase(q)
        lastSelect == lastIndexOf(upperQuery, KwSELECT)
        lastFrom == lastIndexOf(upperQuery, KwFROM)
        lastJoin == lastIndexOf(upperQuery, KwJOIN)
        lastWhere == lastIndexOf(upperQuery, KwWHERE)
        lastOn == lastIndexOf(upperQuery, KwON)
    IN  [afterSelect |-> lastSelect > lastFrom /\ lastSelect > lastJoin,
         afterFrom |-> lastFrom > lastSelect,
         afterJoin |-> lastJoin > lastFrom,
         afterWhere |-> lastWhere > lastFrom,
         afterOn |-> lastOn > lastJoin]

\* getContext(query)
getContext(q) ==
    LET upperQuery == toUpperCase(q)
        lastSelect == lastIndexOf(upperQuery, KwSELECT)
        lastFrom == lastIndexOf(upperQuery, KwFROM)
        lastJoin == lastIndexOf(upperQuery, KwJOIN)
        lastWhere == lastIndexOf(upperQuery, KwWHERE)
        lastOn == lastIndexOf(upperQuery, KwON)
    IN  [afterSelect |-> lastSelect > lastFrom /\ lastSelect > lastJoin,
         afterFrom |-> lastFrom > lastSelect /\ lastFrom > lastJoin,
         afterJoin |-> lastJoin > lastFrom,
         afterWhere |-> lastWhere > lastFrom,
         afterOn |-> lastOn > lastJoin]

\* mutant: keywords are withheld after FROM
shouldSuggestKeywordsUnlessFrom(context) == ~context.afterFrom

shouldSuggestKeywords(context) == TRUE

\* mutant: afterJoin is forgotten
shouldSuggestTablesFromOnly(context) == context.afterFrom

shouldSuggestTables(context) == context.afterFrom \/ context.afterJoin

\* mutant: columns are suggested after FROM as well
shouldSuggestColumnsAlsoFrom(context) ==
    context.afterSelect \/ context.afterWhere \/ context.afterOn \/ context.afterFrom

shouldSuggestColumns(context) ==
    context.afterSelect \/ context.afterWhere \/ context.afterOn

\* Array.prototype.find on schema.tables: the first table whose lower-cased
\* name equals the lower-cased reference; <<>> when there is none
findTable(sch, tableName) ==
    LET hits == {i \in 1..Len(sch.tables) :
                    toLowerCase(sch.tables[i].name) = toLowerCase(tableName)}
    IN  IF hits = {} THEN <<>>
        ELSE <<sch.tables[CHOOSE i \in hits : \A j \in hits : i <= j]>>

columnNames(table) == [i \in 1..Len(table.columns) |-> table.columns[i].name]

qualifiedColumnNames(table) ==
    [i \in 1..Len(table.columns) |-> table.name \o <<".">> \o table.columns[i].name]

\* mutant: the fallback is taken only when no table reference is found
getRelevantColumnsFallbackOnNoReference(sch, q) ==
    IF sch = Null THEN <<>>
    ELSE
    LET upperQuery == toUpperCase(q)
        fromMatch == matchKeywordWord(upperQuery, KwFROM)
        joinMatch == matchKeywordWord(upperQuery, KwJOIN)
        tables == (IF fromMatch.found THEN <<fromMatch.group1>> ELSE <<>>)
                  \o (IF joinMatch.found THEN <<joinMatch.group1>> ELSE <<>>)
        perTable == [i \in 1..Len(tables) |->
                        LET t == findTable(sch, tables[i])
                        IN  IF t = <<>> THEN <<>> ELSE columnNames(t[1])]
    IN  IF Len(tables) = 0
        THEN Concat([i \in 1..Len(sch.tables) |-> qualifiedColumnNames(sch.tables[i])])
        ELSE Concat(perTable)

\* getRelevantColumns(query)
getRelevantColumns(sch, q) ==
    IF sch = Null THEN <<>>
    ELSE
    LET upperQuery == toUpperCase(q)
        fromMatch == matchKeywordWord(upperQuery, KwFROM)
        joinMatch == matchKeywordWord(upperQuery, KwJOIN)
        tables == (IF fromMatch.found THEN <<fromMatch.group1>> ELSE <<>>)
                  \o (IF joinMatch.found THEN <<joinMatch.group1>> ELSE <<>>)
        perTable == [i \in 1..Len(tables) |->
                        LET t == findTable(sch, tables[i])
                        IN  IF t = <<>> THEN <<>> ELSE columnNames(t[1])]
        columns == Concat(perTable)
    IN  IF Len(columns) = 0
        THEN Concat([i \in 1..Len(sch.tables) |-> qualifiedColumnNames(sch.tables[i])])
        ELSE columns

\* the comparator of the final sort: order[type] || 3, where order is
\* {keyword: 0, table: 1, column: 2} and 0 is falsy
order == [keyword |-> 0, table |-> 1, column |-> 2]

sortRank(type) ==
    LET o == IF type \in DOMAIN order THEN order[type] ELSE 0
    IN  IF o = 0 THEN 3 ELSE o

\* Array.prototype.sort is stable: elements of equal rank keep their order
sortSuggestions(list) ==
    SelectSeq(list, LAMBDA s : sortRank(s.type) = 1)
    \o SelectSeq(list, LAMBDA s : sortRank(s.type) = 2)
    \o SelectSeq(list, LAMBDA s : sortRank(s.type) = 3)

asSuggestions(labels, type) ==
    [i \in 1..Len(labels) |-> [label |-> labels[i], type |-> type]]

\* mutant: the expression lacks its $ anchor and takes the first word
currentWordOfFirstWord(beforeCursor) ==
    LET first == CHOOSE i \in 1..(Len(beforeCursor) + 1) :
                    /\ i = Len(beforeCursor) + 1 \/ IsWordChar(beforeCursor[i])
                    /\ \A j \in 1..(i - 1) : ~IsWordChar(beforeCursor[j])
    IN  toUpperCase(SubSeq(beforeCursor, first, skipWord(beforeCursor, first) - 1))

\* the current word of getSuggestions (lines 84-87)
currentWordOf(beforeCursor) ==
    LET wordMatch == matchWordAtEnd(beforeCursor)
    IN  IF wordMatch.found THEN toUpperCase(wordMatch.group1) ELSE <<>>

tableNamesOf(sch) ==
    IF sch = Null THEN <<>> ELSE [i \in 1..Len(sch.tables) |-> sch.tables[i].name]

\* mutant: the context and the columns are taken from the whole query
getSuggestionsWholeQuery(sch, q, pos) ==
    LET beforeCursor == substring(q, 0, pos)
        currentWord == currentWordOf(beforeCursor)
        context == getContext(q)
        matchingKeywords ==
            SelectSeq(keywords, LAMBDA kw : startsWith(kw, toUpperCase(currentWord)))
        matchingTables ==
            IF shouldSuggestTables(context)
            THEN SelectSeq(tableNamesOf(sch),
                     LAMBDA t : startsWith(toLowerCase(t), toLowerCase(currentWord)))
            ELSE <<>>
        matchingColumns ==
            IF shouldSuggestColumns(context)
            THEN SelectSeq(getRelevantColumns(sch, q),
                     LAMBDA col : startsWith(toLowerCase(col), toLowerCase(currentWord)))
            ELSE <<>>
    IN  sortSuggestions(asSuggestions(matchingKeywords, "keyword")
                        \o asSuggestions(matchingTables, "table")
                        \o asSuggestions(matchingColumns, "column"))

\* getSuggestions(query, cursorPosition)
getSuggestions(sch, q, pos) ==
    LET beforeCursor == substring(q, 0, pos)
        currentWord == currentWordOf(beforeCursor)
        context == getContext(beforeCursor)
        matchingKeywords ==
            IF shouldSuggestKeywords(context)
            THEN SelectSeq(keywords, LAMBDA kw : startsWith(kw, toUpperCase(currentWord)))
            ELSE <<>>
        matchingTables ==
            IF shouldSuggestTables(context)
            THEN SelectSeq(tableNamesOf(sch),
                     LAMBDA t : startsWith(toLowerCase(t), toLowerCase(currentWord)))
            ELSE <<>>
        matchingColumns ==
            IF shouldSuggestColumns(context)
            THEN SelectSeq(getRelevantColumns(sch, beforeCursor),
                     LAMBDA col : startsWith(toLowerCase(col), toLowerCase(currentWord)))
            ELSE <<>>
    IN  sortSuggestions(asSuggestions(matchingKeywords, "keyword")
                        \o asSuggestions(matchingTables, "table")
                        \o asSuggestions(matchingColumns, "column"))

-----------------------------------------------------------------------------
(* JavaScript values and JSON                                              *)
(*                                                                         *)
(* A value that travels through JSON.stringify / JSON.parse is a tagged    *)
(* record.  The text kept in localStorage is represented by the JSON value *)
(* it denotes: JSON.parse(JSON.stringify(v)) is ToJson(v).                  *)

Undefined == [type |-> "undefined"]

JNull == [type |-> "null"]

JNum(n) == [type |-> "number", value |-> n]

JStr(s) == [type |-> "string", value |-> s]

JArr(items) == [type |-> "array", items |-> items]

\* an object literal: the property names in insertion order and their values
JObj(keys, vals) == [type |-> "object", keys |-> keys, vals |-> vals]

\* a Uint8Array, the value sql.js returns for a BLOB column
JBytes(bytes) == [type |-> "Uint8Array", bytes |-> bytes]

IndexKeys == <<"0", "1", "2", "3">>

\* JSON.stringify followed by JSON.parse: a property whose value is undefined
\* is left out, an undefined array element becomes null, and a typed array
\* becomes a plain object keyed by its indices
RECURSIVE ToJson(_)
ToJson(v) ==
    CASE v.type = "array" ->
            JArr([i \in 1..Len(v.items) |->
                    IF v.items[i] = Undefined THEN JNull ELSE ToJson(v.items[i])])
      [] v.type = "object" ->
            LET keep == SelectSeq([i \in 1..Len(v.keys) |-> i],
                                  LAMBDA i : v.vals[i] # Undefined)
            IN  JObj([i \in 1..Len(keep) |-> v.keys[keep[i]]],
                     [i \in 1..Len(keep) |-> ToJson(v.vals[keep[i]])])
      [] v.type = "Uint8Array" ->
            JObj([i \in 1..Len(v.bytes) |-> IndexKeys[i]],
                 [i \in 1..Len(v.bytes) |-> JNum(v.bytes[i])])
      [] OTHER -> v

-----------------------------------------------------------------------------
(* QueryHistoryManager                                                     *)
(*                                                                         *)
(* Date.now() counts milliseconds; the clock of the model counts seconds, *)
(* so the source's intervals are divided by MsPerSecond.  An operation     *)
(* runs to completion at one clock value; the clock advances between       *)
(* operations.                                                             *)

\* milliseconds per clock unit
MsPerSecond == 1000

\* default of the constructor's maxSize
DefaultMaxSize == 100

\* the age, 60000 ms, beyond which add keeps an entry of the same text
DedupWindow == 60000 \div MsPerSecond

\* the age, 30 * 24 * 60 * 60 * 1000 ms, from which loadFromStorage drops an entry
ThirtyDays == 30 * 24 * 60 * 60 * (1000 \div MsPerSecond)

\* the number of entries saveToStorage writes
RecentLimit == 50

\* String.prototype.trim
RECURSIVE trimStart(_)
trimStart(s) ==
    IF s # <<>> /\ IsSpaceChar(Head(s)) THEN trimStart(Tail(s)) ELSE s

RECURSIVE trimEnd(_)
trimEnd(s) ==
    IF s # <<>> /\ IsSpaceChar(s[Len(s)]) THEN trimEnd(SubSeq(s, 1, Len(s) - 1)) ELSE s

trim(s) == trimEnd(trimStart(s))

\* Array.prototype.slice(0, n) for n >= 0
sliceFirst(list, n) == SubSeq(list, 1, Min2(n, Len(list)))

\* generateId(): `${Date.now()}-${Math.random().toString(36).substr(2, 9)}`
generateId(t, rnd) == <<t, rnd>>

\* the QueryHistoryItem built by add (lines 440-447)
newItem(q, executionTime, result, error, t, rnd) ==
    [id |-> generateId(t, rnd),
     query |-> trim(q),
     timestamp |-> t,
     executionTime |-> executionTime,
     result |-> result,
     error |-> error]

\* the property of an item, undefined when the object does not have it
Field(item, key) == IF key \in DOMAIN item THEN item[key] ELSE Undefined

\* mutant: an entry aged exactly the window is kept
removeDuplicatesKeepAtWindow(list, item, t) ==
    SelectSeq(list, LAMBDA h : \/ "query" \notin DOMAIN h
                               \/ h.query # item.query
                               \/ t - h.timestamp >= DedupWindow)

\* the filter of add (lines 450-452): drop the recent entries of the same text
\* (an entry without a query property has the query undefined, never equal
\* to the new text)
removeDuplicates(list, item, t) ==
    SelectSeq(list, LAMBDA h : \/ "query" \notin DOMAIN h
                               \/ h.query # item.query
                               \/ t - h.timestamp > DedupWindow)

\* mutant: the new entry is appended
addItemLast(list, maxSize, item, t) ==
    LET pushed == removeDuplicates(list, item, t) \o <<item>>
    IN  IF Len(pushed) > maxSize THEN sliceFirst(pushed, maxSize) ELSE pushed

\* the in-memory effect of add (lines 449-459)
addItem(list, maxSize, item, t) ==
    LET unshifted == <<item>> \o removeDuplicates(list, item, t)
    IN  IF Len(unshifted) > maxSize THEN sliceFirst(unshifted, maxSize) ELSE unshifted

\* JSON.stringify of one history item, read back by JSON.parse
itemToJson(item) ==
    LET optional == {k \in {"result", "error"} \cap DOMAIN item : item[k] # Undefined}
    IN  [k \in ((DOMAIN item) \ {"result", "error"}) \cup optional |->
            IF k \in optional THEN ToJson(item[k]) ELSE item[k]]

\* mutant: the whole list is written
saveToStorageAll(list) ==
    JArr([i \in 1..Len(list) |-> itemToJson(list[i])])

\* saveToStorage(): the value written under the storage key (lines 528-529)
saveToStorage(list) ==
    LET recentHistory == sliceFirst(list, RecentLimit)
    IN  JArr([i \in 1..Len(recentHistory) |-> itemToJson(recentHistory[i])])

\* a stored string JSON.parse rejects
Unparseable == [type |-> "unparseable"]

\* mutant: an entry aged exactly 30 days is kept
loadFromStorageKeepAtHorizon(stored, t) ==
    IF stored = Null \/ stored.type # "array" THEN <<>>
    ELSE IF \E i \in 1..Len(stored.items) : stored.items[i] = JNull THEN <<>>
    ELSE SelectSeq(stored.items, LAMBDA item : /\ "timestamp" \in DOMAIN item
                                               /\ item.timestamp >= t - ThirtyDays)

\* loadFromStorage(): the history after construction (lines 505-519).
\* getItem returns null when nothing is stored; JSON.parse throws on a string
\* that is not JSON, parsed.filter is not a function when the JSON is not an
\* array, and item.timestamp throws when an element is null: the exception
\* is caught before this.history is assigned, so the history stays empty.  An
\* element without a timestamp compares false and is dropped.
loadFromStorage(stored, t) ==
    IF stored = Null THEN <<>>
    ELSE IF stored.type # "array" THEN <<>>
    ELSE LET parsed == stored.items
             thirtyDaysAgo == t - ThirtyDays
         IN  IF \E i \in 1..Len(parsed) : parsed[i] = JNull THEN <<>>
             ELSE SelectSeq(parsed, LAMBDA item : /\ "timestamp" \in DOMAIN item
                                                  /\ item.timestamp > thirtyDaysAgo)

\* the ways localStorage can fail
StorageFaults == {"none", "absent", "readThrows", "writeThrows"}

\* the history after the constructor ran loadFromStorage: the read is skipped
\* when window.localStorage is absent (line 507) and what getItem throws is
\* caught (line 516)
afterLoad(fault, stored, t) ==
    IF fault \in {"absent", "readThrows"} THEN <<>> ELSE loadFromStorage(stored, t)

\* the stored item after saveToStorage ran: the write is skipped when
\* window.localStorage is absent (line 526) and what setItem throws is
\* caught (line 531)
afterSave(fault, stored, list) ==
    IF fault \in {"absent", "writeThrows"} THEN stored ELSE saveToStorage(list)

\* the provider before its effect ran, and the state of the provider
\* variable while a QueryHistoryManager is used on its own
Standalone == [managers |-> FALSE, loaded |-> FALSE, queryHistory |-> <<>>]

\* new QueryHistoryManager(maxSize)
Construct(maxSize) ==
    /\ steps < MaxOps
    /\ maxHistorySize' = maxSize
    /\ history' = afterLoad(storageFault, storage, now)
    /\ lastOp' = [name |-> "new", at |-> now, threw |-> FALSE, after |-> lastOp.name]
    /\ prevHistory' = history
    /\ steps' = steps + 1
    /\ UNCHANGED <<storage, now, ticks>>
    /\ UNCHANGED envVars
    /\ UNCHANGED acVars
    /\ UNCHANGED compVars

\* add(query, executionTime, result, error)
Add(q, executionTime, result, error, rnd) ==
    /\ steps < MaxOps
    /\ history' = addItem(history, maxHistorySize,
                          newItem(q, executionTime, result, error, now, rnd), now)
    /\ storage' = afterSave(storageFault, storage, history')
    /\ lastOp' = [name |-> "add", at |-> now, threw |-> FALSE, query |-> q,
                  executionTime |-> executionTime, result |-> result, error |-> error]
    /\ prevHistory' = history
    /\ steps' = steps + 1
    /\ UNCHANGED <<maxHistorySize, now, ticks>>
    /\ UNCHANGED envVars
    /\ UNCHANGED acVars
    /\ UNCHANGED compVars

\* mutant: the emptied log is not written
ClearInMemoryOnly ==
    /\ steps < MaxOps
    /\ history' = <<>>
    /\ lastOp' = [name |-> "clear", at |-> now, threw |-> FALSE]
    /\ prevHistory' = history
    /\ steps' = steps + 1
    /\ UNCHANGED <<maxHistorySize, storage, now, ticks>>
    /\ UNCHANGED envVars
    /\ UNCHANGED acVars
    /\ UNCHANGED compVars

\* clear()
Clear ==
    /\ steps < MaxOps
    /\ history' = <<>>
    /\ storage' = afterSave(storageFault, storage, history')
    /\ lastOp' = [name |-> "clear", at |-> now, threw |-> FALSE]
    /\ prevHistory' = history
    /\ steps' = steps + 1
    /\ UNCHANGED <<maxHistorySize, now, ticks>>
    /\ UNCHANGED envVars
    /\ UNCHANGED acVars
    /\ UNCHANGED compVars

\* remove(id)
Remove(id) ==
    /\ steps < MaxOps
    /\ history' = SelectSeq(history, LAMBDA item : "id" \notin DOMAIN item \/ item.id # id)
    /\ storage' = afterSave(storageFault, storage, history')
    /\ lastOp' = [name |-> "remove", at |-> now, threw |-> FALSE, id |-> id]
    /\ prevHistory' = history
    /\ steps' = steps + 1
    /\ UNCHANGED <<maxHistorySize, now, ticks>>
    /\ UNCHANGED envVars
    /\ UNCHANGED acVars
    /\ UNCHANGED compVars

\* time passes between two operations
Tick(dt) ==
    /\ ticks < MaxTicks
    /\ now' = now + dt
    /\ ticks' = ticks + 1
    /\ UNCHANGED <<history, maxHistorySize, storage, lastOp, prevHistory, steps>>
    /\ UNCHANGED envVars
    /\ UNCHANGED acVars
    /\ UNCHANGED compVars

\* String.prototype.includes
includes(s, sub) ==
    \E i \in 0..(Len(s) - Len(sub)) : SubSeq(s, i + 1, i + Len(sub)) = sub

\* search(query) throws when item.query.toLowerCase() is evaluated on an
\* entry that has no query (line 476)
searchThrows(list) == \E i \in 1..Len(list) : "query" \notin DOMAIN list[i]

\* mutant: the texts are compared as they are written
searchCaseSensitive(list, s) ==
    SelectSeq(list, LAMBDA item : includes(item.query, s))

\* search(query): the array returned (lines 475-476)
search(list, s) ==
    LET lowerQuery == toLowerCase(s)
    IN  SelectSeq(list, LAMBDA item : includes(toLowerCase(item.query), lowerQuery))

\* default of getRecent's limit
DefaultRecent == 10

\* getRecent(limit): this.history.slice(0, limit)
getRecent(list, limit) == sliceFirst(list, limit)

\* search(s)
Search(s) ==
    /\ steps < MaxOps
    /\ lastOp' = [name |-> "search", at |-> now, threw |-> searchThrows(history),
                  query |-> s,
                  returned |-> IF searchThrows(history) THEN <<>> ELSE search(history, s)]
    /\ prevHistory' = history
    /\ steps' = steps + 1
    /\ UNCHANGED <<history, maxHistorySize, storage, now, ticks>>
    /\ UNCHANGED envVars
    /\ UNCHANGED acVars
    /\ UNCHANGED compVars

\* getAll()
GetAll ==
    /\ steps < MaxOps
    /\ lastOp' = [name |-> "getAll", at |-> now, threw |-> FALSE, returned |-> history]
    /\ prevHistory' = history
    /\ steps' = steps + 1
    /\ UNCHANGED <<history, maxHistorySize, storage, now, ticks>>
    /\ UNCHANGED envVars
    /\ UNCHANGED acVars
    /\ UNCHANGED compVars

\* getRecent(limit)
GetRecent(limit) ==
    /\ steps < MaxOps
    /\ lastOp' = [name |-> "getRecent", at |-> now, threw |-> FALSE,
                  returned |-> getRecent(history, limit)]
    /\ prevHistory' = history
    /\ steps' = steps + 1
    /\ UNCHANGED <<history, maxHistorySize, storage, now, ticks>>
    /\ UNCHANGED envVars
    /\ UNCHANGED acVars
    /\ UNCHANGED compVars

\* localStorage starts to behave as fault says
Fail(fault) ==
    /\ steps < MaxOps
    /\ storageFault' = fault
    /\ lastOp' = [name |-> "fail", at |-> now, threw |-> FALSE]
    /\ prevHistory' = history
    /\ steps' = steps + 1
    /\ UNCHANGED <<history, maxHistorySize, storage, provider, now, ticks>>
    /\ UNCHANGED acVars
    /\ UNCHANGED compVars

\* something else writes content under the storage key
Corrupt(content) ==
    /\ steps < MaxOps
    /\ storage' = content
    /\ lastOp' = [name |-> "corrupt", at |-> now, threw |-> FALSE]
    /\ prevHistory' = history
    /\ steps' = steps + 1
    /\ UNCHANGED <<history, maxHistorySize, now, ticks>>
    /\ UNCHANGED envVars
    /\ UNCHANGED acVars
    /\ UNCHANGED compVars

\* getAll() returns [...this.history]: a new array whose elements are the
\* entry objects of this.history themselves.  this.history after the caller
\* applied mutation m to the returned value: a push, pop or reverse acts on
\* the new array only; an assignment to a field of the i-th returned entry is
\* an assignment to the i-th entry of this.history.
historyAfterCallerMutation(list, m) ==
    IF m.kind = "setField" /\ m.index \in 1..Len(list)
    THEN [list EXCEPT ![m.index][m.key] = m.value]
    ELSE list

\* the caller calls getAll() and mutates the value it returned
MutateReturned(m) ==
    /\ steps < MaxOps
    /\ history' = historyAfterCallerMutation(history, m)
    /\ lastOp' = [name |-> "callerMutation", at |-> now, threw |-> FALSE, kind |-> m.kind]
    /\ prevHistory' = history
    /\ steps' = steps + 1
    /\ UNCHANGED <<maxHistorySize, storage, now, ticks>>
    /\ UNCHANGED envVars
    /\ UNCHANGED acVars
    /\ UNCHANGED compVars

-----------------------------------------------------------------------------
(* SQLiteProvider: executeQuery and the history it records                *)

Msg_NotInitialized == "Database manager not initialized"

Msg_NotLoaded == "Database not loaded. Load or create a database first."

Msg_EmptyQuery == "Query execution failed: Empty query"

Msg_Fallback == "Query execution failed"

\* DatabaseManager.executeQuery(query) (database.ts, lines 80-122): it throws
\* when no database is loaded and when the trimmed query is empty; otherwise
\* the outcome is what sql.js does with the statement, engine: a result, or
\* an error rethrown as 'Query execution failed: ...'
dbExecuteQuery(loaded, q, engine) ==
    IF ~loaded THEN [ok |-> FALSE, message |-> Msg_NotLoaded]
    ELSE IF trim(q) = <<>> THEN [ok |-> FALSE, message |-> Msg_EmptyQuery]
    ELSE engine

\* err.message || 'Query execution failed' (part_003, line 144)
errorMessageOf(outcome) ==
    IF outcome.message = "" THEN Msg_Fallback ELSE outcome.message

\* mutant: only a successful execution is recorded
historyAfterExecuteQuerySuccessOnly(list, maxSize, q, outcome, executionTime, t, rnd) ==
    IF outcome.ok
    THEN addItem(list, maxSize, newItem(q, executionTime, outcome.result, Undefined, t, rnd), t)
    ELSE list

\* the manager's history after the provider's executeQuery got outcome from
\* the database manager (part_003, lines 132-154): one add in the try block
\* after a success, one add in the catch block after a failure
historyAfterExecuteQuery(list, maxSize, q, outcome, executionTime, t, rnd) ==
    IF outcome.ok
    THEN addItem(list, maxSize, newItem(q, executionTime, outcome.result, Undefined, t, rnd), t)
    ELSE addItem(list, maxSize,
                 newItem(q, executionTime, Undefined, JStr(errorMessageOf(outcome)), t, rnd), t)

\* mutant: the catch block does not refresh the state
queryHistoryAfterExecuteQueryTryOnly(shown, list, outcome) ==
    IF outcome.ok THEN list ELSE shown

\* the provider's queryHistory state after executeQuery: setQueryHistory(
\* historyManagerRef.current.getAll()) follows the add in the try block and
\* in the catch block (part_003, lines 137-151)
queryHistoryAfterExecuteQuery(shown, list, outcome) == list

\* the provider's effect runs: the managers are created and the state is set
\* to the loaded history (part_003, lines 65-84)
Mount ==
    /\ steps < MaxOps
    /\ ~provider.managers
    /\ maxHistorySize' = DefaultMaxSize
    /\ history' = afterLoad(storageFault, storage, now)
    /\ provider' = [provider EXCEPT !.managers = TRUE, !.queryHistory = history']
    /\ lastOp' = [name |-> "new", at |-> now, threw |-> FALSE, after |-> lastOp.name]
    /\ prevHistory' = history
    /\ steps' = steps + 1
    /\ UNCHANGED <<storage, storageFault, now, ticks>>
    /\ UNCHANGED acVars
    /\ UNCHANGED compVars

\* the provider's createDatabase() (part_003, lines 106-120); sqlJsReady says
\* whether initialize() has resolved, without which the manager throws
CreateDatabase(sqlJsReady) ==
    /\ steps < MaxOps
    /\ provider' = [provider EXCEPT !.loaded = @ \/ (provider.managers /\ sqlJsReady)]
    /\ lastOp' = [name |-> "createDatabase", at |-> now,
                  threw |-> ~(provider.managers /\ sqlJsReady)]
    /\ prevHistory' = history
    /\ steps' = steps + 1
    /\ UNCHANGED <<history, maxHistorySize, storage, storageFault, now, ticks>>
    /\ UNCHANGED acVars
    /\ UNCHANGED compVars

\* the provider's closeDatabase() (part_003, lines 197-202)
CloseDatabase ==
    /\ steps < MaxOps
    /\ provider' = [provider EXCEPT !.loaded = @ /\ ~provider.managers]
    /\ lastOp' = [name |-> "closeDatabase", at |-> now, threw |-> FALSE]
    /\ prevHistory' = history
    /\ steps' = steps + 1
    /\ UNCHANGED <<history, maxHistorySize, storage, storageFault, now, ticks>>
    /\ UNCHANGED acVars
    /\ UNCHANGED compVars

\* the provider's executeQuery(query) (part_003, lines 122-157)
ExecuteQuery(q, engine, executionTime, rnd) ==
    /\ steps < MaxOps
    /\ IF ~provider.managers
       THEN /\ lastOp' = [name |-> "executeQuery", at |-> now, threw |-> TRUE, query |-> q,
                          message |-> Msg_NotInitialized]
            /\ UNCHANGED <<history, storage, provider>>
       ELSE LET outcome == dbExecuteQuery(provider.loaded, q, engine)
            IN  /\ history' = historyAfterExecuteQuery(history, maxHistorySize, q, outcome,
                                                       executionTime, now, rnd)
                /\ storage' = afterSave(storageFault, storage, history')
                /\ provider' = [provider EXCEPT !.queryHistory =
                       queryHistoryAfterExecuteQuery(@, history', outcome)]
                /\ lastOp' = IF outcome.ok
                             THEN [name |-> "executeQuery", at |-> now, threw |-> FALSE,
                                   query |-> q, returned |-> outcome.result]
                             ELSE [name |-> "executeQuery", at |-> now, threw |-> TRUE,
                                   query |-> q, message |-> outcome.message]
    /\ prevHistory' = history
    /\ steps' = steps + 1
    /\ UNCHANGED <<maxHistorySize, now, ticks, storageFault>>
    /\ UNCHANGED acVars
    /\ UNCHANGED compVars

\* the provider's addToHistory(item) (part_003, lines 204-212)
AddToHistory(q, executionTime, result, error, rnd) ==
    /\ steps < MaxOps
    /\ IF provider.managers
       THEN /\ history' = addItem(history, maxHistorySize,
                                  newItem(q, executionTime, result, error, now, rnd), now)
            /\ storage' = afterSave(storageFault, storage, history')
            /\ provider' = [provider EXCEPT !.queryHistory = history']
       ELSE UNCHANGED <<history, storage, provider>>
    /\ lastOp' = [name |-> "addToHistory", at |-> now, threw |-> FALSE, query |-> q]
    /\ prevHistory' = history
    /\ steps' = steps + 1
    /\ UNCHANGED <<maxHistorySize, now, ticks, storageFault>>
    /\ UNCHANGED acVars
    /\ UNCHANGED compVars

\* the provider's clearHistory() (part_003, lines 214-219)
ClearHistory ==
    /\ steps < MaxOps
    /\ IF provider.managers
       THEN /\ history' = <<>>
            /\ storage' = afterSave(storageFault, storage, history')
            /\ provider' = [provider EXCEPT !.queryHistory = <<>>]
       ELSE UNCHANGED <<history, storage, provider>>
    /\ lastOp' = [name |-> "clearHistory", at |-> now, threw |-> FALSE]
    /\ prevHistory' = history
    /\ steps' = steps + 1
    /\ UNCHANGED <<maxHistorySize, now, ticks, storageFault>>
    /\ UNCHANGED acVars
    /\ UNCHANGED compVars

-----------------------------------------------------------------------------
(* Inputs of the autocomplete engine                                       *)

Str_users == <<"u","s","e","r","s">>
Str_posts == <<"P","o","s","t","s">>
Str_id == <<"i","d">>
Str_name == <<"n","a","m","e">>
Str_user_id == <<"u","s","e","r","_","i","d">>

Column(n) == [name |-> n]

\* the schema of the specification's examples and of database.test.ts
SchemaUsers ==
    [tables |-> <<[name |-> Str_users, columns |-> <<Column(Str_id), Column(Str_name)>>]>>,
     version |-> "1.0.0"]

SchemaBlog ==
    [tables |-> <<[name |-> Str_posts, columns |-> <<Column(Str_id), Column(Str_user_id)>>],
                  [name |-> Str_users, columns |-> <<Column(Str_id), Column(Str_name)>>]>>,
     version |-> "1.0.0"]

\* DatabaseManager.getSchema() of a database that is not loaded
SchemaEmpty == [tables |-> <<>>, version |-> "0.0.0"]

Schemas == {SchemaUsers, SchemaBlog, SchemaEmpty}

Tokens == {
    <<"S","E","L","E","C","T"," ">>,
    <<"F","R","O","M"," ">>,
    <<"J","O","I","N"," ">>,
    <<"W","H","E","R","E"," ">>,
    <<"O","N"," ">>,
    <<"u","s","e","r","s"," ">>,
    <<"p","o","s","t","s"," ">>,
    <<"f","r","o","m"," ">>,
    <<"i","d">>
}

ExampleQueries == {
    <<"S","E","L","E","C","T"," ","*"," ","F","R","O","M"," ">>,
    <<"S","E","L","E","C","T"," ">>,
    <<"S","E","L">>,
    <<"S","E","L","E","C","T"," ","*"," ","F","R","O","M"," ","l","o","c","a","t","i","o","n","s"," ">>,
    <<"S","E","L","E","C","T"," ","*"," ","F","R","O","M"," ","u","s","e","r","s"," ","W","H","E","R","E"," ","i">>,
    <<"S","E","L","E","C","T"," ","*"," ","F","R","O","M"," ","n","o","s","u","c","h"," ","W","H","E","R","E"," ">>,
    <<"S","E","L","E","C","T"," ","*"," ","F","R","O","M"," ","u","s","e","r","s"," ","J","O","I","N"," ","p","o","s","t","s"," ","O","N"," ">>,
    <<"s","e","l","e","c","t"," ","n"," ","f","r","o","m"," ","U","s","e","r","s"," ","u","\n","j","o","i","n"," "," ","P","O","S","T","S"," ","p"," ","o","n"," ","u",".","i","d"," ","="," ","p",".","u","s","e","r","_">>
}

TokenQueries ==
    {Concat(ts) : ts \in UNION {[1..n -> Tokens] : n \in 0..MaxTokens}}

Queries == TokenQueries \cup ExampleQueries

\* the offsets tried for a query: every position of the text, and one
\* position out of range on either side
Offsets(q) == -1..(Len(q) + 1)

-----------------------------------------------------------------------------
(* Specification of the autocomplete engine                                *)

\* the state of the history variables while the autocomplete engine runs
HistIdle ==
    /\ history = <<>>
    /\ maxHistorySize = DefaultMaxSize
    /\ storage = Null
    /\ storageFault = "none"
    /\ provider = Standalone
    /\ now = 0
    /\ lastOp = [name |-> "new", at |-> now, threw |-> FALSE, after |-> "none"]
    /\ prevHistory = <<>>
    /\ steps = 0
    /\ ticks = 0

ACInit ==
    /\ HistIdle
    /\ CompIdle
    /\ schema = Null
    /\ query \in Queries
    /\ cursorPosition \in Offsets(query)
    /\ acState = "idle"
    /\ suggestions = <<>>

\* updateSchema(schema)
UpdateSchema(s) ==
    /\ schema' = s
    /\ acState' = "idle"
    /\ suggestions' = <<>>
    /\ UNCHANGED <<query, cursorPosition>>
    /\ UNCHANGED histVars
    /\ UNCHANGED compVars

\* getSuggestions(query, cursorPosition)
GetSuggestions ==
    /\ suggestions' = getSuggestions(schema, query, cursorPosition)
    /\ acState' = "returned"
    /\ UNCHANGED <<schema, query, cursorPosition>>
    /\ UNCHANGED histVars
    /\ UNCHANGED compVars

ACNext ==
    \/ \E s \in Schemas : UpdateSchema(s)
    \/ GetSuggestions

SpecAC == ACInit /\ [][ACNext]_vars

-----------------------------------------------------------------------------
(* Inputs and specification of the query history                           *)

RawQueries == {
    <<"S","E","L","E","C","T"," ","1">>,
    <<" ","S","E","L","E","C","T"," ","1","\n">>,
    <<"S","E","L","E","C","T"," ","2">>
}

\* a SELECT result, a result holding a BLOB value, a failure message
ResultRows ==
    JObj(<<"columns", "values">>,
         <<JArr(<<JStr("id"), JStr("name")>>),
           JArr(<<JArr(<<JNum(1), JStr("John")>>)>>)>>)

ResultBlob ==
    JObj(<<"columns", "values">>,
         <<JArr(<<JStr("data")>>),
           JArr(<<JArr(<<JBytes(<<1, 2>>)>>)>>)>>)

Outcomes == {
    [result |-> ResultRows, error |-> Undefined],
    [result |-> ResultBlob, error |-> Undefined],
    [result |-> Undefined, error |-> JStr("Table not found")]
}

ExecutionTimes == {5}

RandomSuffixes == {"k3f9a1c0z"}

MaxSizes == {1, 2, DefaultMaxSize}

TickSteps == {DedupWindow, ThirtyDays}

\* an id no entry has
AbsentId == <<0, "none">>

IdsOf(list) == {list[i].id : i \in 1..Len(list)}

\* the idle state of the autocomplete variables while the history runs
ACIdle ==
    /\ schema = Null
    /\ query = <<>>
    /\ cursorPosition = 0
    /\ acState = "idle"
    /\ suggestions = <<>>

\* a first QueryHistoryManager, constructed over an empty localStorage
HistInit ==
    /\ ACIdle
    /\ CompIdle
    /\ storage = Null
    /\ storageFault = "none"
    /\ provider = Standalone
    /\ now = 0
    /\ maxHistorySize \in MaxSizes
    /\ history = afterLoad(storageFault, storage, now)
    /\ lastOp = [name |-> "new", at |-> now, threw |-> FALSE, after |-> "none"]
    /\ prevHistory = <<>>
    /\ steps = 0
    /\ ticks = 0

HistNext ==
    \/ \E m \in MaxSizes : Construct(m)
    \/ \E q \in RawQueries, t \in ExecutionTimes, o \in Outcomes, r \in RandomSuffixes :
          Add(q, t, o.result, o.error, r)
    \/ Clear
    \/ \E id \in IdsOf(history) \cup {AbsentId} : Remove(id)
    \/ \E dt \in TickSteps : Tick(dt)

SpecHist == HistInit /\ [][HistNext]_vars

\* The log an earlier session left in localStorage: a manager of the default
\* size to which one query was added every DedupWindow + 1 seconds.
PriorEntries == RecentLimit - 1

PriorQuery == <<"S","E","L","E","C","T"," ","2">>

\* newest first, as add leaves them (each entry is older than the window when
\* the next one is added, so none is removed, and 49 < 100, so none is evicted)
PriorHistory ==
    [i \in 1..PriorEntries |->
        newItem(PriorQuery, 5, ResultRows, Undefined,
                (PriorEntries - i + 1) * (DedupWindow + 1), "k3f9a1c0z")]

PriorStorage == saveToStorage(PriorHistory)

\* a QueryHistoryManager of the default size, constructed over that storage
LongInit ==
    /\ ACIdle
    /\ CompIdle
    /\ storage = PriorStorage
    /\ storageFault = "none"
    /\ provider = Standalone
    /\ now = PriorEntries * (DedupWindow + 1)
    /\ maxHistorySize = DefaultMaxSize
    /\ history = afterLoad(storageFault, storage, now)
    /\ lastOp = [name |-> "new", at |-> now, threw |-> FALSE, after |-> "none"]
    /\ prevHistory = <<>>
    /\ steps = 0
    /\ ticks = 0

\* the ids of the newest and of the oldest entry
EndIdsOf(list) ==
    IF list = <<>> THEN {} ELSE {list[1].id, list[Len(list)].id}

LongNext ==
    \/ \E m \in MaxSizes : Construct(m)
    \/ \E q \in RawQueries :
          Add(q, 5, Undefined, JStr("Table not found"), "k3f9a1c0z")
    \/ Clear
    \/ \E id \in EndIdsOf(history) \cup {AbsentId} : Remove(id)
    \/ \E dt \in TickSteps : Tick(dt)

SpecHistLong == LongInit /\ [][LongNext]_vars

\* The query history over a localStorage that fails or holds foreign content.
\* Not JSON; JSON that is not an array; arrays whose element is null, is a
\* number, or is an object with a timestamp and nothing else.
CorruptContents == {
    Unparseable,
    JObj(<<>>, <<>>),
    JArr(<<JNull>>),
    JArr(<<JNum(1)>>),
    JArr(<<[timestamp |-> 0]>>)
}

FaultQuery == <<"S","E","L","E","C","T"," ","1">>

SearchTexts == {<<"s","e","l">>, <<"u","s","e","r">>, <<>>}

\* the ids of the entries that have one
OwnIdsOf(list) ==
    {list[i].id : i \in {j \in 1..Len(list) : "id" \in DOMAIN list[j]}}

FaultInit ==
    /\ ACIdle
    /\ CompIdle
    /\ storage \in {Null} \cup CorruptContents
    /\ storageFault \in StorageFaults
    /\ provider = Standalone
    /\ now = 0
    /\ maxHistorySize = DefaultMaxSize
    /\ history = afterLoad(storageFault, storage, now)
    /\ lastOp = [name |-> "new", at |-> now, threw |-> FALSE, after |-> "none"]
    /\ prevHistory = <<>>
    /\ steps = 0
    /\ ticks = 0

FaultNext ==
    \/ Construct(DefaultMaxSize)
    \/ Add(FaultQuery, 5, ResultRows, Undefined, "k3f9a1c0z")
    \/ Clear
    \/ \E id \in OwnIdsOf(history) \cup {AbsentId} : Remove(id)
    \/ \E s \in SearchTexts : Search(s)
    \/ GetAll
    \/ GetRecent(DefaultRecent)
    \/ \E f \in StorageFaults : Fail(f)
    \/ \E c \in CorruptContents : Corrupt(c)
    \/ \E dt \in TickSteps : Tick(dt)

SpecFault == FaultInit /\ [][FaultNext]_vars

\* The query history with a caller that mutates what getAll() returned.
CallerMutations(list) ==
    {[kind |-> "push"], [kind |-> "pop"], [kind |-> "reverse"]}
    \cup {[kind |-> "setField", index |-> i, key |-> "query", value |-> <<"x">>] :
            i \in 1..Len(list)}

CallerNext ==
    \/ \E q \in RawQueries : Add(q, 5, ResultRows, Undefined, "k3f9a1c0z")
    \/ GetAll
    \/ \E s \in SearchTexts : Search(s)
    \/ GetRecent(DefaultRecent)
    \/ \E m \in CallerMutations(history) : MutateReturned(m)
    \/ \E dt \in TickSteps : Tick(dt)

SpecCaller == HistInit /\ [][CallerNext]_vars

\* The query history searched: the queries and the search text of the test
\* 'should find queries by text', and search texts in another case.
Q_SelectFromUsers == <<"S","E","L","E","C","T"," ","*"," ","F","R","O","M"," ","u","s","e","r","s">>

Q_SelectFromPosts == <<"S","E","L","E","C","T"," ","*"," ","F","R","O","M"," ","p","o","s","t","s">>

Q_InsertIntoUsers == <<"i","n","s","e","r","t"," ","i","n","t","o"," ","U","s","e","r","s">>

SearchedQueries == {Q_SelectFromUsers, Q_SelectFromPosts, Q_InsertIntoUsers}

SearchedTexts == {<<"u","s","e","r">>, <<"U","S","E","R","S">>, <<"s","e","l","e","c","t">>, <<"x">>, <<>>}

SearchNext ==
    \/ \E q \in SearchedQueries : Add(q, 5, ResultRows, Undefined, "k3f9a1c0z")
    \/ \E s \in SearchedTexts : Search(s)
    \/ \E id \in IdsOf(history) : Remove(id)
    \/ \E dt \in TickSteps : Tick(dt)

SpecSearch == HistInit /\ [][SearchNext]_vars

\* The query history with two outcomes of Math.random(), so that two adds at
\* one clock value get the same id or different ids.
IdSuffixes == {"k3f9a1c0z", "0q7xw2m5b"}

IdsNext ==
    \/ \E q \in RawQueries, r \in IdSuffixes : Add(q, 5, ResultRows, Undefined, r)
    \/ \E id \in IdsOf(history) \cup {AbsentId} : Remove(id)
    \/ \E m \in MaxSizes : Construct(m)
    \/ \E dt \in TickSteps : Tick(dt)

SpecIds == HistInit /\ [][IdsNext]_vars

\* The provider: its executeQuery callback exists from the first render,
\* its managers from the first run of its effect.
EngineOutcomes == {
    [ok |-> TRUE, result |-> ResultRows],
    [ok |-> FALSE, message |-> "Query execution failed: no such table: users"]
}

ProviderQueries == RawQueries \cup {<<" ">>}

ProviderInit ==
    /\ ACIdle
    /\ CompIdle
    /\ storage = Null
    /\ storageFault = "none"
    /\ provider = Standalone
    /\ now = 0
    /\ maxHistorySize = DefaultMaxSize
    /\ history = <<>>
    /\ lastOp = [name |-> "render", at |-> now, threw |-> FALSE]
    /\ prevHistory = <<>>
    /\ steps = 0
    /\ ticks = 0

ProviderNext ==
    \/ Mount
    \/ \E ready \in BOOLEAN : CreateDatabase(ready)
    \/ CloseDatabase
    \/ \E q \in ProviderQueries, e \in EngineOutcomes, t \in ExecutionTimes, r \in RandomSuffixes :
          ExecuteQuery(q, e, t, r)
    \/ \E q \in ProviderQueries, t \in ExecutionTimes, o \in Outcomes, r \in RandomSuffixes :
          AddToHistory(q, t, o.result, o.error, r)
    \/ ClearHistory
    \/ \E dt \in TickSteps : Tick(dt)

SpecProvider == ProviderInit /\ [][ProviderNext]_vars

-----------------------------------------------------------------------------
(* HotkeyManager (src/src/core/hotkeys.ts)                                 *)
(*                                                                         *)
(* A KeyboardEvent is a record of its key and its modifier flags; the      *)
(* handlers map is a function from key strings to handlers.                *)

Str_plus == <<"+">>

\* parts.join('+')
RECURSIVE join(_, _)
join(parts, sep) ==
    IF parts = <<>> THEN <<>>
    ELSE IF Len(parts) = 1 THEN parts[1]
    ELSE parts[1] \o sep \o join(Tail(parts), sep)

\* the names getKeyString gives to the special keys (lines 71-84)
specialKeyName(key) ==
    CASE key = <<"E","n","t","e","r">> -> <<"e","n","t","e","r">>
      [] key = <<"E","s","c","a","p","e">> -> <<"e","s","c">>
      [] key = <<"T","a","b">> -> <<"t","a","b">>
      [] key = <<"B","a","c","k","s","p","a","c","e">> -> <<"b","a","c","k","s","p","a","c","e">>
      [] key = <<"D","e","l","e","t","e">> -> <<"d","e","l","e","t","e">>
      [] key = <<"A","r","r","o","w","U","p">> -> <<"a","r","r","o","w","u","p">>
      [] key = <<"A","r","r","o","w","D","o","w","n">> -> <<"a","r","r","o","w","d","o","w","n">>
      [] OTHER -> toLowerCase(key)

\* mutant: the Meta key does not count as ctrl
getKeyStringCtrlOnly(event) ==
    join((IF event.ctrlKey THEN <<<<"c","t","r","l">>>> ELSE <<>>)
         \o (IF event.altKey THEN <<<<"a","l","t">>>> ELSE <<>>)
         \o (IF event.shiftKey THEN <<<<"s","h","i","f","t">>>> ELSE <<>>)
         \o <<specialKeyName(event.key)>>, Str_plus)

\* getKeyString(event)
getKeyString(event) ==
    join((IF event.ctrlKey \/ event.metaKey THEN <<<<"c","t","r","l">>>> ELSE <<>>)
         \o (IF event.altKey THEN <<<<"a","l","t">>>> ELSE <<>>)
         \o (IF event.shiftKey THEN <<<<"s","h","i","f","t">>>> ELSE <<>>)
         \o <<specialKeyName(event.key)>>, Str_plus)

\* Map.prototype.set and Map.prototype.delete on the handlers map
mapSet(map, key, value) ==
    [k \in (DOMAIN map) \cup {key} |-> IF k = key THEN value ELSE map[k]]

mapDelete(map, key) == [k \in (DOMAIN map) \ {key} |-> map[k]]

\* an empty Map
EmptyMap == [k \in {} |-> Null]

\* mutant: the key is stored as it is written
registerAsWritten(map, key, handler) == mapSet(map, key, handler)

\* register(key, handler): this.handlers.set(key.toLowerCase(), handler)
register(map, key, handler) == mapSet(map, toLowerCase(key), handler)

\* unregister(key): this.handlers.delete(key.toLowerCase())
unregister(map, key) == mapDelete(map, toLowerCase(key))

\* handleKeyDown(event): the handlers it invokes, in order
handleKeyDown(map, isEnabled, event) ==
    IF ~isEnabled THEN <<>>
    ELSE LET key == getKeyString(event)
         IN  IF key \in DOMAIN map THEN <<map[key]>> ELSE <<>>

\* new HotkeyManager()
NewHotkeys ==
    [inUse |-> TRUE, handlers |-> EmptyMap, isEnabled |-> TRUE,
     calls |-> <<>>, last |-> "new", event |-> Null, invoked |-> <<>>, ops |-> 0]

Register(key, handler) ==
    /\ hotkeys.ops < MaxOps
    /\ hotkeys' = [hotkeys EXCEPT
            !.handlers = register(@, key, handler),
            !.calls = Append(@, [op |-> "register", key |-> key, handler |-> handler]),
            !.last = "register", !.event = Null, !.invoked = <<>>, !.ops = @ + 1]
    /\ UNCHANGED <<editor, dbm, migrations, share>>
    /\ UNCHANGED acVars
    /\ UNCHANGED histVars

Unregister(key) ==
    /\ hotkeys.ops < MaxOps
    /\ hotkeys' = [hotkeys EXCEPT
            !.handlers = unregister(@, key),
            !.calls = Append(@, [op |-> "unregister", key |-> key]),
            !.last = "unregister", !.event = Null, !.invoked = <<>>, !.ops = @ + 1]
    /\ UNCHANGED <<editor, dbm, migrations, share>>
    /\ UNCHANGED acVars
    /\ UNCHANGED histVars

Enable ==
    /\ hotkeys.ops < MaxOps
    /\ hotkeys' = [hotkeys EXCEPT !.isEnabled = TRUE,
            !.last = "enable", !.event = Null, !.invoked = <<>>, !.ops = @ + 1]
    /\ UNCHANGED <<editor, dbm, migrations, share>>
    /\ UNCHANGED acVars
    /\ UNCHANGED histVars

Disable ==
    /\ hotkeys.ops < MaxOps
    /\ hotkeys' = [hotkeys EXCEPT !.isEnabled = FALSE,
            !.last = "disable", !.event = Null, !.invoked = <<>>, !.ops = @ + 1]
    /\ UNCHANGED <<editor, dbm, migrations, share>>
    /\ UNCHANGED acVars
    /\ UNCHANGED histVars

HandleKeyDown(event) ==
    /\ hotkeys' = [hotkeys EXCEPT
            !.last = "handleKeyDown", !.event = event,
            !.invoked = handleKeyDown(hotkeys.handlers, hotkeys.isEnabled, event)]
    /\ UNCHANGED <<editor, dbm, migrations, share>>
    /\ UNCHANGED acVars
    /\ UNCHANGED histVars

\* The HotkeyManager on its own.
Key_CtrlEnter == <<"c","t","r","l","+","e","n","t","e","r">>

HotkeyNames == {Key_CtrlEnter, <<"C","t","r","l","+","E","n","t","e","r">>, <<"F","5">>}

Handlers == {"h1", "h2"}

KeyEvent(key, ctrl, meta, shift) ==
    [key |-> key, ctrlKey |-> ctrl, metaKey |-> meta, altKey |-> FALSE, shiftKey |-> shift]

KeyEvents ==
    {KeyEvent(k, c, m, FALSE) : k \in {<<"E","n","t","e","r">>, <<"F","5">>}, c \in BOOLEAN, m \in BOOLEAN}
    \cup {KeyEvent(<<"E","n","t","e","r">>, TRUE, FALSE, TRUE)}

HotkeysInit ==
    /\ ACIdle
    /\ HistIdle
    /\ editor = NotInUse
    /\ dbm = NotInUse
    /\ migrations = NotInUse
    /\ share = NotInUse
    /\ hotkeys = NewHotkeys

HotkeysNext ==
    \/ \E k \in HotkeyNames, h \in Handlers : Register(k, h)
    \/ \E k \in HotkeyNames : Unregister(k)
    \/ Enable
    \/ Disable
    \/ \E e \in KeyEvents : HandleKeyDown(e)

SpecHotkeys == HotkeysInit /\ [][HotkeysNext]_vars

-----------------------------------------------------------------------------
(* QueryBuilder (src/src/components/QueryBuilder/QueryBuilder.tsx)         *)
(*                                                                         *)
(* editor.query and editor.isExecuting are the component's state.  The     *)
(* hotkeys are registered once, by an effect with no dependencies, so the  *)
(* functions they call are those of the first render: their query is       *)
(* editor.initialQuery and their isExecuting is false.                     *)

\* the handlers the hotkey effect registers (lines 204-228)
EditorHotkeys ==
    register(register(register(EmptyMap,
        Key_CtrlEnter, "handleExecute"),
        <<"c","t","r","l","+","s","p","a","c","e">>, "showAutocomplete"),
        <<"c","t","r","l","+","s","h","i","f","t","+","f">>, "formatQuery")

\* handleExecute as one render defines it: the texts it passes to executeQuery
handleExecute(q, isExecuting) ==
    IF trim(q) = <<>> \/ isExecuting THEN <<>> ELSE <<q>>

\* what the function registered for ctrl+enter runs: handleExecute of the
\* first render, whose query is the initial one and whose isExecuting is false
hotkeyRuns(ed) == handleExecute(ed.initialQuery, FALSE)

\* what a click on the Execute button runs: handleExecute of the current render
buttonRuns(ed) == handleExecute(ed.query, ed.isExecuting)

\* the component after its first render with the given initialQuery
NewEditor(initialQuery) ==
    [inUse |-> TRUE, initialQuery |-> initialQuery, query |-> initialQuery,
     isExecuting |-> FALSE, pending |-> 0, last |-> "render",
     ran |-> <<>>, edits |-> 0, runs |-> 0]

\* the start of an execution: setIsExecuting(true) and the call of executeQuery
started(ed, texts, by) ==
    [ed EXCEPT !.last = by, !.ran = texts,
               !.isExecuting = IF texts = <<>> THEN @ ELSE TRUE,
               !.pending = @ + Len(texts),
               !.runs = @ + Len(texts)]

\* handleQueryChange(value): the user edits the text
Edit(value) ==
    /\ editor.edits < MaxOps
    /\ editor' = [editor EXCEPT !.query = value, !.last = "edit", !.ran = <<>>,
                                !.edits = @ + 1]
    /\ UNCHANGED <<dbm, migrations, share, hotkeys>>
    /\ UNCHANGED acVars
    /\ UNCHANGED histVars

\* a keydown event on the window, handed to the HotkeyManager
PressKey(event) ==
    /\ editor.runs < MaxOps
    /\ LET invoked == handleKeyDown(EditorHotkeys, TRUE, event)
       IN  editor' = IF invoked = <<"handleExecute">>
                     THEN started(editor, hotkeyRuns(editor), "hotkey")
                     ELSE [editor EXCEPT !.last = "key", !.ran = <<>>]
    /\ UNCHANGED <<dbm, migrations, share, hotkeys>>
    /\ UNCHANGED acVars
    /\ UNCHANGED histVars

\* a click on the Execute button, which is disabled while isExecuting
ClickExecute ==
    /\ editor.runs < MaxOps
    /\ ~editor.isExecuting
    /\ editor' = started(editor, buttonRuns(editor), "button")
    /\ UNCHANGED <<dbm, migrations, share, hotkeys>>
    /\ UNCHANGED acVars
    /\ UNCHANGED histVars

\* executeQuery settles: the finally block of handleExecute
FinishExecute ==
    /\ editor.pending > 0
    /\ editor' = [editor EXCEPT !.pending = @ - 1, !.isExecuting = FALSE,
                                !.last = "finish", !.ran = <<>>]
    /\ UNCHANGED <<dbm, migrations, share, hotkeys>>
    /\ UNCHANGED acVars
    /\ UNCHANGED histVars

EditorTexts == {<<>>, <<"S","E","L","E","C","T"," ","1">>, <<"S","E","L","E","C","T"," ","2">>, <<" ">>}

EditorKeyEvents ==
    {KeyEvent(<<"E","n","t","e","r">>, c, m, s) : c \in BOOLEAN, m \in BOOLEAN, s \in BOOLEAN}

EditorInit ==
    /\ ACIdle
    /\ HistIdle
    /\ \E initialQuery \in {<<>>, <<"S","E","L","E","C","T"," ","1">>} : editor = NewEditor(initialQuery)
    /\ dbm = NotInUse
    /\ migrations = NotInUse
    /\ share = NotInUse
    /\ hotkeys = NotInUse

EditorNext ==
    \/ \E value \in EditorTexts : Edit(value)
    \/ \E e \in EditorKeyEvents : PressKey(e)
    \/ ClickExecute
    \/ FinishExecute

SpecEditor == EditorInit /\ [][EditorNext]_vars

-----------------------------------------------------------------------------
(* DatabaseManager life cycle (src/src/core/database.ts)                   *)
(*                                                                         *)
(* dbm.sqlJs is the library handle (0 for null), dbm.db the loaded         *)
(* database (0 for null), dbm.pending the calls suspended at an await,     *)
(* dbm.initCalls the number of invocations of initSqlJs.  dbm.calls logs   *)
(* the calls that have completed, dbm.last describes the last of them.     *)

Msg_FailedToInitialize == "Failed to initialize sql.js: "

Msg_SqlJsNotInitialized == "sql.js not initialized"

Msg_CallInitializeFirst == "sql.js not initialized. Call initialize() first."

Msg_FailedToLoad == "Failed to load database: "

Msg_FailedToCreate == "Failed to create database: "

\* getSchema() of a manager with no database
EmptySchemaResult == [tables |-> <<>>, version |-> "0.0.0"]

\* what getSchema() can read from a loaded database
LoadedSchemaResults ==
    {[tables |-> <<>>, version |-> "0"], [tables |-> <<"users">>, version |-> "1"],
     EmptySchemaResult}

\* new DatabaseManager()
NewManager ==
    [inUse |-> TRUE, sqlJs |-> 0, db |-> 0, initialized |-> FALSE,
     initCalls |-> 0, dbCount |-> 0, pending |-> <<>>, calls |-> <<>>,
     used |-> {}, ops |-> 0,
     last |-> [op |-> "new", threw |-> FALSE, message |-> "",
               returned |-> Null, before |-> Null]]

\* some call of initialize has completed without throwing
hasInitialized(d) ==
    \E i \in 1..Len(d.calls) : d.calls[i].op = "initialize" /\ ~d.calls[i].threw

\* the manager as a call finds it: the fields a call can change, the number
\* of invocations of initSqlJs, and whether initialize has succeeded before
managerState(d) ==
    [sqlJs |-> d.sqlJs, db |-> d.db, initialized |-> d.initialized,
     initCalls |-> d.initCalls, afterSuccess |-> hasInitialized(d)]

\* a call that found the manager as in before has completed: it is logged
\* and described
completed(d, op, threw, message, returned, before) ==
    [d EXCEPT !.calls = Append(@, [op |-> op, threw |-> threw]),
              !.last = [op |-> op, threw |-> threw, message |-> message,
                        returned |-> returned, before |-> before]]

\* the pending calls but the i-th
settled(pending, i) ==
    SubSeq(pending, 1, i - 1) \o SubSeq(pending, i + 1, Len(pending))

\* mutant: initialize() never returns early
initializeReturnsEarlyNever(d) == FALSE

\* initialize(): if (this.initialized) return
initializeReturnsEarly(d) == d.initialized

\* initialize() up to its await: initSqlJs is invoked and the call waits for
\* the handle h it will resolve to
initSqlJsInvoked(d, from, h) ==
    [d EXCEPT !.initCalls = @ + 1,
              !.pending = Append(@, [from |-> from, stage |-> "init", h |-> h,
                                     before |-> managerState(d)])]

\* the handles an invocation of initSqlJs can resolve to: the library's own
\* (it may cache it) or a new one
HandlesOf(d) == {1, d.initCalls + 1}

\* loadDatabase() from its second check on: no await is left
loadDatabaseTail(d, ctorOk, before) ==
    IF d.sqlJs = 0
    THEN completed(d, "loadDatabase", TRUE, Msg_SqlJsNotInitialized, Null, before)
    ELSE IF ctorOk
    THEN completed([d EXCEPT !.db = d.dbCount + 1, !.dbCount = @ + 1,
                             !.used = @ \cup {d.sqlJs}],
                   "loadDatabase", FALSE, "", Null, before)
    ELSE completed(d, "loadDatabase", TRUE, Msg_FailedToLoad, Null, before)

\* initialize()
Initialize ==
    /\ dbm.ops < MaxOps
    /\ \E h \in HandlesOf(dbm) :
         dbm' = [(IF initializeReturnsEarly(dbm)
                  THEN completed(dbm, "initialize", FALSE, "", Null, managerState(dbm))
                  ELSE initSqlJsInvoked(dbm, "initialize", h))
                 EXCEPT !.ops = @ + 1]
    /\ UNCHANGED <<editor, migrations, share, hotkeys>>
    /\ UNCHANGED acVars
    /\ UNCHANGED histVars

\* the promise of initSqlJs settles for the i-th pending call: initialize()
\* goes on after its await, and a loadDatabase() waiting for it is resumed
InitSqlJsSettles(i, ok) ==
    /\ i \in 1..Len(dbm.pending)
    /\ dbm.pending[i].stage = "init"
    /\ LET p == dbm.pending[i]
           done == [dbm EXCEPT !.sqlJs = p.h, !.initialized = TRUE,
                               !.used = @ \cup {p.h}]
       IN  dbm' =
             IF ok
             THEN IF p.from = "initialize"
                  THEN completed([done EXCEPT !.pending = settled(@, i)],
                                 "initialize", FALSE, "", Null, p.before)
                  ELSE completed([done EXCEPT !.pending[i].stage = "resume"],
                                 "initialize", FALSE, "", Null, p.before)
             ELSE IF p.from = "initialize"
                  THEN completed([dbm EXCEPT !.pending = settled(@, i)],
                                 "initialize", TRUE, Msg_FailedToInitialize, Null, p.before)
                  ELSE completed(
                         completed([dbm EXCEPT !.pending = settled(@, i)],
                                   "initialize", TRUE, Msg_FailedToInitialize, Null, p.before),
                         "loadDatabase", TRUE, Msg_FailedToInitialize, Null, p.before)
    /\ UNCHANGED <<editor, migrations, share, hotkeys>>
    /\ UNCHANGED acVars
    /\ UNCHANGED histVars

\* loadDatabase(data) up to its await, or to its end when nothing is awaited
LoadDatabase(ctorOk) ==
    /\ dbm.ops < MaxOps
    /\ \E h \in HandlesOf(dbm) :
         dbm' = [(IF dbm.sqlJs # 0
                  THEN loadDatabaseTail(dbm, ctorOk, managerState(dbm))
                  ELSE IF initializeReturnsEarly(dbm)
                  THEN [dbm EXCEPT !.pending =
                            Append(@, [from |-> "loadDatabase", stage |-> "resume", h |-> 0,
                                       before |-> managerState(dbm)])]
                  ELSE initSqlJsInvoked(dbm, "loadDatabase", h))
                 EXCEPT !.ops = @ + 1]
    /\ UNCHANGED <<editor, migrations, share, hotkeys>>
    /\ UNCHANGED acVars
    /\ UNCHANGED histVars

\* loadDatabase(data) after await this.initialize()
LoadDatabaseResumes(i, ctorOk) ==
    /\ i \in 1..Len(dbm.pending)
    /\ dbm.pending[i].stage = "resume"
    /\ dbm' = loadDatabaseTail([dbm EXCEPT !.pending = settled(@, i)], ctorOk,
                               dbm.pending[i].before)
    /\ UNCHANGED <<editor, migrations, share, hotkeys>>
    /\ UNCHANGED acVars
    /\ UNCHANGED histVars

\* createDatabase() of the manager
ManagerCreateDatabase(ctorOk) ==
    /\ dbm.ops < MaxOps
    /\ dbm' = [(IF dbm.sqlJs = 0
                THEN completed(dbm, "createDatabase", TRUE, Msg_CallInitializeFirst, Null,
                               managerState(dbm))
                ELSE IF ctorOk
                THEN completed([dbm EXCEPT !.db = dbm.dbCount + 1, !.dbCount = @ + 1,
                                           !.used = @ \cup {dbm.sqlJs}],
                               "createDatabase", FALSE, "", Null, managerState(dbm))
                ELSE completed(dbm, "createDatabase", TRUE, Msg_FailedToCreate, Null,
                               managerState(dbm)))
               EXCEPT !.ops = @ + 1]
    /\ UNCHANGED <<editor, migrations, share, hotkeys>>
    /\ UNCHANGED acVars
    /\ UNCHANGED histVars

\* mutant: close() keeps the database
closedKeepsDatabase(d) == d

\* close(): if (this.db) { this.db.close(); this.db = null; }
closed(d) == [d EXCEPT !.db = 0]

\* close()
Close ==
    /\ dbm.ops < MaxOps
    /\ dbm' = [completed(closed(dbm), "close", FALSE, "", Null, managerState(dbm))
               EXCEPT !.ops = @ + 1]
    /\ UNCHANGED <<editor, migrations, share, hotkeys>>
    /\ UNCHANGED acVars
    /\ UNCHANGED histVars

\* getSchema(), which changes nothing
GetSchema(content) ==
    /\ dbm' = [dbm EXCEPT !.last =
                  [op |-> "getSchema", threw |-> FALSE, message |-> "",
                   returned |-> IF dbm.db = 0 THEN EmptySchemaResult ELSE content,
                   before |-> managerState(dbm)]]
    /\ UNCHANGED <<editor, migrations, share, hotkeys>>
    /\ UNCHANGED acVars
    /\ UNCHANGED histVars

\* isLoaded()
isLoaded(d) == d.db # 0

DbInit ==
    /\ ACIdle
    /\ HistIdle
    /\ editor = NotInUse
    /\ dbm = NewManager
    /\ migrations = NotInUse
    /\ share = NotInUse
    /\ hotkeys = NotInUse

DbNext ==
    \/ Initialize
    \/ \E i \in 1..MaxOps, ok \in BOOLEAN : InitSqlJsSettles(i, ok)
    \/ \E ctorOk \in BOOLEAN : LoadDatabase(ctorOk)
    \/ \E i \in 1..MaxOps, ctorOk \in BOOLEAN : LoadDatabaseResumes(i, ctorOk)
    \/ \E ctorOk \in BOOLEAN : ManagerCreateDatabase(ctorOk)
    \/ Close
    \/ \E content \in LoadedSchemaResults : GetSchema(content)

SpecDb == DbInit /\ [][DbNext]_vars

-----------------------------------------------------------------------------
(* MigrationManager (src/src/core/sqlAutocomplete.ts)                      *)
(*                                                                         *)
(* migrations.list is the private array; a text is the sequence of the     *)
(* pieces it is made of.  migrations.created is the order of creation.     *)

\* Array.prototype.reverse
RECURSIVE reverse(_)
reverse(array) ==
    IF array = <<>> THEN <<>> ELSE Append(reverse(Tail(array)), Head(array))

\* lines.join('\n\n')
RECURSIVE joinTexts(_)
joinTexts(texts) ==
    IF texts = <<>> THEN <<>>
    ELSE IF Len(texts) = 1 THEN texts[1]
    ELSE texts[1] \o <<"\n\n">> \o joinTexts(Tail(texts))

\* `-- Migration: ${m.name}\n${m.up}`
migrationText(m) == <<"-- Migration: ", m.name, "\n", m.up>>

\* `-- Rollback: ${m.name}\n${m.down}`
rollbackText(m) == <<"-- Rollback: ", m.name, "\n", m.down>>

\* generateMigrationSQL()
generateMigrationSQL(list) ==
    joinTexts([i \in 1..Len(list) |-> migrationText(list[i])])

\* generateRollbackSQL(): the text it returns
generateRollbackSQL(list) ==
    joinTexts([i \in 1..Len(list) |-> rollbackText(reverse(list)[i])])

\* generateRollbackSQL(): the array it leaves, reversed in place
arrayAfterRollbackSQL(list) == reverse(list)

\* new MigrationManager()
NewMigrations ==
    [inUse |-> TRUE, list |-> <<>>, created |-> <<>>,
     last |-> [op |-> "new", returned |-> <<>>, before |-> <<>>]]

\* createMigration(name, up, down)
CreateMigration(name, up, down) ==
    /\ Len(migrations.created) < MaxOps
    /\ LET migration == [name |-> name, up |-> up, down |-> down]
       IN  migrations' = [migrations EXCEPT
               !.list = Append(@, migration),
               !.created = Append(@, migration),
               !.last = [op |-> "createMigration", returned |-> <<migration>>,
                         before |-> <<>>]]
    /\ UNCHANGED <<editor, dbm, share, hotkeys>>
    /\ UNCHANGED acVars
    /\ UNCHANGED histVars

\* getAll()
MigrationsGetAll ==
    /\ migrations' = [migrations EXCEPT
           !.last = [op |-> "getAll", returned |-> migrations.list, before |-> <<>>]]
    /\ UNCHANGED <<editor, dbm, share, hotkeys>>
    /\ UNCHANGED acVars
    /\ UNCHANGED histVars

\* generateMigrationSQL()
GenerateMigrationSQL ==
    /\ migrations' = [migrations EXCEPT
           !.last = [op |-> "generateMigrationSQL",
                     returned |-> generateMigrationSQL(migrations.list),
                     before |-> <<>>]]
    /\ UNCHANGED <<editor, dbm, share, hotkeys>>
    /\ UNCHANGED acVars
    /\ UNCHANGED histVars

\* generateRollbackSQL(); last.before is what the call before it returned,
\* if that was generateRollbackSQL too
GenerateRollbackSQL ==
    /\ migrations' = [migrations EXCEPT
           !.list = arrayAfterRollbackSQL(@),
           !.last = [op |-> "generateRollbackSQL",
                     returned |-> generateRollbackSQL(migrations.list),
                     before |-> IF migrations.last.op = "generateRollbackSQL"
                                THEN <<migrations.last.returned>> ELSE <<>>]]
    /\ UNCHANGED <<editor, dbm, share, hotkeys>>
    /\ UNCHANGED acVars
    /\ UNCHANGED histVars

MigrationNames == {"add_users", "add_posts", "add_index"}

MigrationsInit ==
    /\ ACIdle
    /\ HistIdle
    /\ editor = NotInUse
    /\ dbm = NotInUse
    /\ migrations = NewMigrations
    /\ share = NotInUse
    /\ hotkeys = NotInUse

MigrationsNext ==
    \/ \E name \in MigrationNames :
         CreateMigration(name, "CREATE " \o name, "DROP " \o name)
    \/ MigrationsGetAll
    \/ GenerateMigrationSQL
    \/ GenerateRollbackSQL

SpecMigrations == MigrationsInit /\ [][MigrationsNext]_vars

-----------------------------------------------------------------------------
(* QueryShareManager (src/src/core/sqlAutocomplete.ts)                     *)
(*                                                                         *)
(* Strings are sequences of characters; the printable ASCII characters     *)
(* have their codes; E_acute stands for the character U+00E9.  A           *)
(* function that can throw returns [ok |-> FALSE]; a nullable string is    *)
(* the empty sequence for null and <<text>> for a text.                    *)

\* the longest query shared
MaxShareLen == 3

E_acute == "e-acute"

\* stands for the character U+0060
Grave == "grave-accent"

\* the characters with codes 32 to 126, in order
Ascii == <<
    " ","!","\"","#","$","%","&","'","(",")","*","+",",","-",".","/",
    "0","1","2","3","4","5","6","7","8","9",":",";","<","=",">","?",
    "@","A","B","C","D","E","F","G","H","I","J","K","L","M","N","O",
    "P","Q","R","S","T","U","V","W","X","Y","Z","[","\\","]","^","_",
    Grave,"a","b","c","d","e","f","g","h","i","j","k","l","m","n","o",
    "p","q","r","s","t","u","v","w","x","y","z","{","|","}","~">>

codeOf(c) == 31 + (CHOOSE i \in 1..Len(Ascii) : Ascii[i] = c)

\* the character of a code; a code outside 32..126 gives a character of its
\* own, written with its number
charOfCode(n) ==
    IF n >= 32 /\ n <= 126 THEN Ascii[n - 31]
    ELSE IF n = 233 THEN E_acute
    ELSE "\\" \o ToString(n)

HexDigits == <<"0","1","2","3","4","5","6","7","8","9","A","B","C","D","E","F">>

\* the characters encodeURIComponent leaves as they are
UriUnreserved ==
    LowerSet \cup UpperSet \cup Digits \cup {"-", "_", ".", "!", "~", "*", "'", "(", ")"}

\* %XX for one byte
percentByte(b) == <<"%", HexDigits[(b \div 16) + 1], HexDigits[(b % 16) + 1]>>

\* the UTF-8 bytes of a character
utf8Of(c) == IF c = E_acute THEN <<195, 169>> ELSE <<codeOf(c)>>

\* encodeURIComponent(s)
RECURSIVE encodeURIComponent(_)
encodeURIComponent(s) ==
    IF s = <<>> THEN <<>>
    ELSE (IF Head(s) \in UriUnreserved THEN <<Head(s)>>
          ELSE Concat([i \in 1..Len(utf8Of(Head(s))) |-> percentByte(utf8Of(Head(s))[i])]))
         \o encodeURIComponent(Tail(s))

Threw == [ok |-> FALSE]

Ok(text) == [ok |-> TRUE, text |-> text]

IsHexDigit(c) == \E i \in 1..16 : HexDigits[i] = c \/ toLowerCase(<<HexDigits[i]>>) = <<c>>

hexValue(c) ==
    (CHOOSE i \in 1..16 : HexDigits[i] = c \/ toLowerCase(<<HexDigits[i]>>) = <<c>>) - 1

\* s holds %XX at index i
IsEscapeAt(s, i) ==
    i + 2 <= Len(s) /\ s[i] = "%" /\ IsHexDigit(s[i + 1]) /\ IsHexDigit(s[i + 2])

byteAt(s, i) == 16 * hexValue(s[i + 1]) + hexValue(s[i + 2])

\* decodeURIComponent(s) from index i on: an escape gives a character of one
\* byte or of two bytes; a malformed escape or sequence throws URIError
\* (longer sequences do not arise from the characters modelled)
RECURSIVE decodeURIComponentFrom(_, _)
decodeURIComponentFrom(s, i) ==
    IF i > Len(s) THEN Ok(<<>>)
    ELSE IF s[i] # "%"
    THEN LET rest == decodeURIComponentFrom(s, i + 1)
         IN  IF rest.ok THEN Ok(<<s[i]>> \o rest.text) ELSE Threw
    ELSE IF ~IsEscapeAt(s, i) THEN Threw
    ELSE IF byteAt(s, i) < 128
    THEN LET rest == decodeURIComponentFrom(s, i + 3)
         IN  IF rest.ok THEN Ok(<<charOfCode(byteAt(s, i))>> \o rest.text) ELSE Threw
    ELSE IF byteAt(s, i) >= 194 /\ byteAt(s, i) <= 223 /\ IsEscapeAt(s, i + 3)
            /\ byteAt(s, i + 3) >= 128 /\ byteAt(s, i + 3) <= 191
    THEN LET rest == decodeURIComponentFrom(s, i + 6)
             point == (byteAt(s, i) % 32) * 64 + (byteAt(s, i + 3) % 64)
         IN  IF rest.ok THEN Ok(<<charOfCode(point)>> \o rest.text) ELSE Threw
    ELSE Threw

decodeURIComponent(s) == decodeURIComponentFrom(s, 1)

\* the base64 alphabet
B64 == <<
    "A","B","C","D","E","F","G","H","I","J","K","L","M","N","O","P",
    "Q","R","S","T","U","V","W","X","Y","Z","a","b","c","d","e","f",
    "g","h","i","j","k","l","m","n","o","p","q","r","s","t","u","v",
    "w","x","y","z","0","1","2","3","4","5","6","7","8","9","+","/">>

B64Set == {B64[i] : i \in 1..64}

sextetOf(c) == (CHOOSE i \in 1..64 : B64[i] = c) - 1

\* base64 of a sequence of bytes
RECURSIVE base64(_)
base64(bytes) ==
    IF bytes = <<>> THEN <<>>
    ELSE LET n == Len(bytes)
             b1 == bytes[1]
             b2 == IF n >= 2 THEN bytes[2] ELSE 0
             b3 == IF n >= 3 THEN bytes[3] ELSE 0
         IN  <<B64[(b1 \div 4) + 1],
               B64[(b1 % 4) * 16 + (b2 \div 16) + 1],
               IF n >= 2 THEN B64[(b2 % 16) * 4 + (b3 \div 64) + 1] ELSE "=",
               IF n >= 3 THEN B64[(b3 % 64) + 1] ELSE "=">>
             \o (IF n > 3 THEN base64(SubSeq(bytes, 4, n)) ELSE <<>>)

\* btoa(s): s is ASCII here, so it does not throw
btoa(s) == base64([i \in 1..Len(s) |-> codeOf(s[i])])

\* the bytes of a sequence of sextets
RECURSIVE bytesOfSextets(_)
bytesOfSextets(x) ==
    IF Len(x) < 2 THEN <<>>
    ELSE <<x[1] * 4 + (x[2] \div 16)>>
         \o (IF Len(x) >= 3 THEN <<(x[2] % 16) * 16 + (x[3] \div 4)>> ELSE <<>>)
         \o (IF Len(x) >= 4 THEN <<(x[3] % 4) * 64 + x[4]>> ELSE <<>>)
         \o (IF Len(x) > 4 THEN bytesOfSextets(SubSeq(x, 5, Len(x))) ELSE <<>>)

\* atob(s), the forgiving base64 decoding: ASCII white space is removed, one
\* or two = of a text whose length is a multiple of 4 are removed, and a
\* remaining length of 1 modulo 4 or a character outside the alphabet throws
atob(s) ==
    LET stripped == SelectSeq(s, LAMBDA c : c \notin {" ", "\t", "\n", "\f", "\r"})
        unpadded ==
            IF Len(stripped) % 4 = 0 /\ Len(stripped) >= 2 /\ stripped[Len(stripped)] = "="
            THEN IF stripped[Len(stripped) - 1] = "=" THEN SubSeq(stripped, 1, Len(stripped) - 2)
                 ELSE SubSeq(stripped, 1, Len(stripped) - 1)
            ELSE stripped
    IN  IF Len(unpadded) % 4 = 1 \/ \E i \in 1..Len(unpadded) : unpadded[i] \notin B64Set
        THEN Threw
        ELSE LET bytes == bytesOfSextets([i \in 1..Len(unpadded) |-> sextetOf(unpadded[i])])
             IN  Ok([i \in 1..Len(bytes) |-> charOfCode(bytes[i])])

\* encodeQuery(query): btoa(encodeURIComponent(query))
encodeQuery(q) == btoa(encodeURIComponent(q))

\* decodeQuery(encoded): decodeURIComponent(atob(encoded)), and
\* decodeURIComponent(encoded) if that throws
decodeQuery(encoded) ==
    LET binary == atob(encoded)
        first == IF binary.ok THEN decodeURIComponent(binary.text) ELSE Threw
    IN  IF first.ok THEN first ELSE decodeURIComponent(encoded)

\* generateShareLink(query, baseUrl)
generateShareLink(q, baseUrl) == baseUrl \o <<"?","q","u","e","r","y","=">> \o encodeQuery(q)

\* the first index of character c in s, 0 if there is none
indexOfChar(s, c) ==
    IF \E i \in 1..Len(s) : s[i] = c
    THEN CHOOSE i \in 1..Len(s) : s[i] = c /\ \A j \in 1..(i - 1) : s[j] # c
    ELSE 0

\* s.split(c)
RECURSIVE splitOn(_, _)
splitOn(s, c) ==
    IF indexOfChar(s, c) = 0 THEN <<s>>
    ELSE <<SubSeq(s, 1, indexOfChar(s, c) - 1)>>
         \o splitOn(SubSeq(s, indexOfChar(s, c) + 1, Len(s)), c)

\* new URL(url) accepts the text: it has a scheme and a host
urlParses(url) == startsWith(url, <<"h","t","t","p","s",":","/","/">>) /\ Len(url) > 8

\* the query string of a URL: what follows the first ? and precedes the #
urlSearch(url) ==
    LET hash == indexOfChar(url, "#")
        noFragment == IF hash = 0 THEN url ELSE SubSeq(url, 1, hash - 1)
        mark == indexOfChar(noFragment, "?")
    IN  IF mark = 0 THEN <<>> ELSE SubSeq(noFragment, mark + 1, Len(noFragment))

\* the decoding URLSearchParams applies to a name or a value: + is a space,
\* then the escapes are decoded where they are well formed
formDecode(s) ==
    LET spaced == [i \in 1..Len(s) |-> IF s[i] = "+" THEN " " ELSE s[i]]
    IN  IF decodeURIComponent(spaced).ok THEN decodeURIComponent(spaced).text ELSE spaced

\* url.searchParams.get(name): the value of the first parameter of that
\* name, null (the empty sequence) if there is none
searchParamsGet(url, name) ==
    LET parts == SelectSeq(splitOn(urlSearch(url), "&"), LAMBDA p : p # <<>>)
        nameOf(p) == formDecode(IF indexOfChar(p, "=") = 0 THEN p
                                ELSE SubSeq(p, 1, indexOfChar(p, "=") - 1))
        valueOf(p) == formDecode(IF indexOfChar(p, "=") = 0 THEN <<>>
                                 ELSE SubSeq(p, indexOfChar(p, "=") + 1, Len(p)))
        named == SelectSeq(parts, LAMBDA p : nameOf(p) = name)
    IN  IF named = <<>> THEN <<>> ELSE <<valueOf(named[1])>>

\* decodeFromUrl(url)
decodeFromUrl(url) ==
    IF ~urlParses(url) THEN <<>>
    ELSE LET encoded == searchParamsGet(url, <<"q","u","e","r","y">>)
         IN  IF encoded = <<>> \/ encoded[1] = <<>> THEN <<>>
             ELSE IF decodeQuery(encoded[1]).ok THEN <<decodeQuery(encoded[1]).text>>
             ELSE <<>>

\* a link is generated from the query and the base URL and decoded again
ShareAndDecode ==
    /\ share.link = <<>>
    /\ share' = [share EXCEPT
           !.link = <<generateShareLink(share.query, share.baseUrl)>>,
           !.decoded = decodeFromUrl(generateShareLink(share.query, share.baseUrl))]
    /\ UNCHANGED <<editor, dbm, migrations, hotkeys>>
    /\ UNCHANGED acVars
    /\ UNCHANGED histVars

ShareAlphabet == {"a", "~", " ", E_acute}

SharedQueries == UNION {[1..n -> ShareAlphabet] : n \in 0..MaxShareLen}

BaseUrls == {<<"h","t","t","p","s",":","/","/","e","x","a","m","p","l","e",".","c","o","m">>, <<"h","t","t","p","s",":","/","/","e","x","a","m","p","l","e",".","c","o","m","/","a","p","p","?","t","a","b","=","1">>,
             <<"h","t","t","p","s",":","/","/","e","x","a","m","p","l","e",".","c","o","m","/","#","/","e","d","i","t","o","r">>}

ShareInit ==
    /\ ACIdle
    /\ HistIdle
    /\ editor = NotInUse
    /\ dbm = NotInUse
    /\ migrations = NotInUse
    /\ \E q \in SharedQueries, base \in BaseUrls :
          share = [inUse |-> TRUE, query |-> q, baseUrl |-> base,
                   link |-> <<>>, decoded |-> <<>>]
    /\ hotkeys = NotInUse

ShareNext == ShareAndDecode

SpecShare == ShareInit /\ [][ShareNext]_vars

-----------------------------------------------------------------------------
(* What the claims say, stated apart from the code's computation           *)

\* the text before a cursor offset
TextBefore(q, p) ==
    SubSeq(q, 1, IF p < 0 THEN 0 ELSE IF p > Len(q) THEN Len(q) ELSE p)

InRange(q, p) == 0 <= p /\ p <= Len(q)

SameLetter(c, d) ==
    c = d \/ \E k \in 1..26 : {c, d} = {LowerLetters[k], UpperLetters[k]}

SameIgnoringCase(a, b) ==
    Len(a) = Len(b) /\ \A i \in 1..Len(a) : SameLetter(a[i], b[i])

StartsWithIgnoringCase(label, w) ==
    Len(w) <= Len(label) /\ SameIgnoringCase(SubSeq(label, 1, Len(w)), w)

\* the maximal run of word characters that ends at the end of s
TrailingWord(s) ==
    LET k == CHOOSE k \in 0..Len(s) :
                /\ \A j \in (k + 1)..Len(s) : IsWordChar(s[j])
                /\ k = 0 \/ ~IsWordChar(s[k])
    IN  SubSeq(s, k + 1, Len(s))

\* 0-based index of the rightmost occurrence of w in s ignoring case, -1 if none
LastOccurrence(s, w) ==
    LET occ == {i \in 0..(Len(s) - Len(w)) :
                   SameIgnoringCase(SubSeq(s, i + 1, i + Len(w)), w)}
    IN  IF occ = {} THEN -1 ELSE CHOOSE i \in occ : \A j \in occ : j <= i

AfterSelect(s) ==
    /\ LastOccurrence(s, KwSELECT) > LastOccurrence(s, KwFROM)
    /\ LastOccurrence(s, KwSELECT) > LastOccurrence(s, KwJOIN)

AfterFrom(s) ==
    /\ LastOccurrence(s, KwFROM) > LastOccurrence(s, KwSELECT)
    /\ LastOccurrence(s, KwFROM) > LastOccurrence(s, KwJOIN)

AfterJoin(s) == LastOccurrence(s, KwJOIN) > LastOccurrence(s, KwFROM)

AfterWhere(s) == LastOccurrence(s, KwWHERE) > LastOccurrence(s, KwFROM)

AfterOn(s) == LastOccurrence(s, KwON) > LastOccurrence(s, KwJOIN)

ColumnsEligible(s) == AfterSelect(s) \/ AfterWhere(s) \/ AfterOn(s)

\* the labels of the candidates of one kind, in the order returned
LabelsOfKind(list, kind) ==
    LET sel == SelectSeq(list, LAMBDA c : c.type = kind)
    IN  [i \in 1..Len(sel) |-> sel[i].label]

SchemaTables(sch) == IF sch = Null THEN <<>> ELSE sch.tables

\* the names of the snapshot's tables that match the current word
MatchingTableNames(sch, w) ==
    LET names == [i \in 1..Len(SchemaTables(sch)) |-> SchemaTables(sch)[i].name]
    IN  SelectSeq(names, LAMBDA n : StartsWithIgnoringCase(n, w))

Returned == acState = "returned"

Before == TextBefore(query, cursorPosition)

Q_SelectStarFrom == <<"S","E","L","E","C","T"," ","*"," ","F","R","O","M"," ">>
Q_Select == <<"S","E","L","E","C","T"," ">>
Q_Sel == <<"S","E","L">>
Q_FromNosuchWhere == <<"S","E","L","E","C","T"," ","*"," ","F","R","O","M"," ","n","o","s","u","c","h"," ","W","H","E","R","E"," ">>
L_users_id == <<"u","s","e","r","s",".","i","d">>
L_users_name == <<"u","s","e","r","s",".","n","a","m","e">>

\* the rank of a kind in the documented order
KindRank(kind) == CASE kind = "keyword" -> 0 [] kind = "table" -> 1 [] OTHER -> 2

\* C1: the list returned by getSuggestions is ordered by kind: every keyword
\* candidate comes before every table candidate, which comes before every
\* column candidate.
C1_OrderedByKind ==
    Returned =>
        \A i, j \in 1..Len(suggestions) :
            i < j => KindRank(suggestions[i].type) <= KindRank(suggestions[j].type)

\* C4: for every offset within the text, every returned label starts, ignoring
\* case, with the maximal run of word characters that ends at the cursor.
C4_LabelsStartWithCurrentWord ==
    (Returned /\ InRange(query, cursorPosition)) =>
        \A i \in 1..Len(suggestions) :
            StartsWithIgnoringCase(suggestions[i].label, TrailingWord(Before))

C4_Witness ==
    /\ Returned /\ InRange(query, cursorPosition)
    /\ Len(TrailingWord(Before)) >= 2
    /\ Before # query
    /\ \E i \in 1..Len(suggestions) :
          /\ suggestions[i].type = "table"
          /\ ~startsWith(suggestions[i].label, TrailingWord(Before))

\* C5: table candidates are returned exactly when afterFrom or afterJoin holds
\* for the text before the cursor, and are then the snapshot's table names
\* that start, ignoring case, with the current word, in schema order.
C5_TablesIffFromOrJoin ==
    Returned =>
        LabelsOfKind(suggestions, "table") =
            IF AfterFrom(Before) \/ AfterJoin(Before)
            THEN MatchingTableNames(schema, TrailingWord(Before))
            ELSE <<>>

C5_Witness ==
    /\ Returned
    /\ AfterJoin(Before) /\ ~AfterFrom(Before)
    /\ Len(TrailingWord(Before)) >= 1
    /\ Len(LabelsOfKind(suggestions, "table")) = 1
    /\ Len(SchemaTables(schema)) = 2

\* C6: column candidates are returned only when afterSelect, afterWhere or
\* afterOn holds; when afterFrom holds and none of the three does, as for
\* "SELECT * FROM " with the cursor at its end, the matching tables are
\* returned and no column candidate is.
C6_ColumnsOnlyWhenEligible ==
    Returned =>
        /\ LabelsOfKind(suggestions, "column") # <<>> => ColumnsEligible(Before)
        /\ (AfterFrom(Before) /\ ~ColumnsEligible(Before)) =>
              /\ LabelsOfKind(suggestions, "column") = <<>>
              /\ LabelsOfKind(suggestions, "table") =
                     MatchingTableNames(schema, TrailingWord(Before))
        /\ (query = Q_SelectStarFrom /\ cursorPosition = Len(query)
               /\ schema = SchemaUsers) =>
              /\ LabelsOfKind(suggestions, "table") = <<Str_users>>
              /\ LabelsOfKind(suggestions, "column") = <<>>

C6_Witness ==
    /\ Returned
    /\ query = Q_SelectStarFrom /\ cursorPosition = Len(query)
    /\ schema = SchemaUsers
    /\ AfterFrom(Before) /\ ~ColumnsEligible(Before)
    /\ LabelsOfKind(suggestions, "table") = <<Str_users>>

\* C8: whatever the context and the schema, the keyword candidates are the
\* keywords of the vocabulary, in declaration order, that start with the
\* upper-cased current word; "SEL" at offset 3 yields SELECT alone.
C8_KeywordsAlways ==
    Returned =>
        /\ LabelsOfKind(suggestions, "keyword") =
               SelectSeq(keywords,
                   LAMBDA kw : StartsWithIgnoringCase(kw, TrailingWord(Before)))
        /\ (query = Q_Sel /\ cursorPosition = Len(query)) =>
               LabelsOfKind(suggestions, "keyword") = <<KwSELECT>>

C8_Witness ==
    /\ Returned
    /\ schema = Null
    /\ query = Q_Sel /\ cursorPosition = Len(query)
    /\ suggestions = <<[label |-> KwSELECT, type |-> "keyword"]>>

\* a FROM <name> or JOIN <name> reference starts at 1-based position i of s:
\* the keyword (in any case), at least one white-space character, a word
IsReferenceAt(s, kw, i) ==
    LET a == i + Len(kw)
    IN  /\ a - 1 <= Len(s)
        /\ SameIgnoringCase(SubSeq(s, i, a - 1), kw)
        /\ \E n \in (a + 1)..Len(s) :
              /\ \A j \in a..(n - 1) : IsSpaceChar(s[j])
              /\ IsWordChar(s[n])

ReferenceNameAt(s, kw, i) ==
    LET a == i + Len(kw)
        n == CHOOSE n \in (a + 1)..Len(s) :
                /\ \A j \in a..(n - 1) : IsSpaceChar(s[j])
                /\ IsWordChar(s[n])
        e == CHOOSE e \in n..Len(s) :
                /\ \A j \in n..e : IsWordChar(s[j])
                /\ e = Len(s) \/ ~IsWordChar(s[e + 1])
    IN  SubSeq(s, n, e)

\* the name of the first reference introduced by kw, as a list of 0 or 1 names
FirstReference(s, kw) ==
    LET at == {i \in 1..Len(s) : IsReferenceAt(s, kw, i)}
    IN  IF at = {} THEN <<>>
        ELSE <<ReferenceNameAt(s, kw, CHOOSE i \in at : \A j \in at : i <= j)>>

ReferencedNames(s) == FirstReference(s, KwFROM) \o FirstReference(s, KwJOIN)

\* the unqualified column names of the table a reference names
ColumnsOfReference(sch, name) ==
    LET tabs == SchemaTables(sch)
        hits == {i \in 1..Len(tabs) : SameIgnoringCase(tabs[i].name, name)}
    IN  IF hits = {} THEN <<>>
        ELSE LET tab == tabs[CHOOSE i \in hits : \A j \in hits : i <= j]
             IN  [c \in 1..Len(tab.columns) |-> tab.columns[c].name]

ResolvedColumns(sch, s) ==
    LET names == ReferencedNames(s)
    IN  Concat([i \in 1..Len(names) |-> ColumnsOfReference(sch, names[i])])

\* every column of every table, qualified as table.column
AllQualifiedColumns(sch) ==
    LET tabs == SchemaTables(sch)
    IN  Concat([i \in 1..Len(tabs) |->
                   [c \in 1..Len(tabs[i].columns) |->
                       tabs[i].name \o <<".">> \o tabs[i].columns[c].name]])

MatchingColumns(cols, w) ==
    SelectSeq(cols, LAMBDA c : StartsWithIgnoringCase(c, w))

SelectExample ==
    (query = Q_Select /\ cursorPosition = Len(query) /\ schema = SchemaUsers) =>
        /\ LabelsOfKind(suggestions, "column") = <<L_users_id, L_users_name>>
        /\ LabelsOfKind(suggestions, "table") = <<>>

-----------------------------------------------------------------------------
(* Claims about the query history                                          *)

\* s without its leading and trailing white space
Stripped(s) ==
    LET solid == {i \in 1..Len(s) : ~IsSpaceChar(s[i])}
    IN  IF solid = {} THEN <<>>
        ELSE SubSeq(s, CHOOSE i \in solid : \A j \in solid : i <= j,
                       CHOOSE i \in solid : \A j \in solid : j <= i)

JustAdded == lastOp.name = "add"

Mutated == lastOp.name \in {"add", "remove", "clear"}

\* entry h has the text of the new entry and, when the new entry was made,
\* an age below the window (or, if inclusive, of at most the window)
RecentDuplicate(h, item, inclusive) ==
    /\ h.query = item.query
    /\ IF inclusive
       THEN item.timestamp - h.timestamp <= DedupWindow
       ELSE item.timestamp - h.timestamp < DedupWindow

\* The last add removed exactly the recent duplicates of the new entry and
\* kept every other entry that fits under the maximum size.
AddRemovedExactly(inclusive) ==
    LET item == history[1]
        kept == {i \in 1..Len(prevHistory) :
                    ~RecentDuplicate(prevHistory[i], item, inclusive)}
    IN  /\ Len(history) >= 1
        /\ item.query = Stripped(lastOp.query)
        /\ \A i \in 1..Len(prevHistory) :
              (\E j \in 2..Len(history) : history[j] = prevHistory[i])
              <=> (i \in kept /\ Cardinality({k \in kept : k <= i}) < maxHistorySize)

\* the entries that have the text of the newest one and were made at most
\* (inclusive) or less than (otherwise) the window before it
NearNewest(inclusive) ==
    {i \in 1..Len(history) : RecentDuplicate(history[i], history[1], inclusive)}

\* no two entries of the same text are less than the window apart
NoCloseDuplicates ==
    \A i, j \in 1..Len(history) :
        (i < j /\ history[i].query = history[j].query) =>
            history[i].timestamp - history[j].timestamp >= DedupWindow

\* C2 as claimed: add removes exactly the entries of the same trimmed text
\* whose age is less than 60 seconds and keeps an entry of the same text
\* whose age is 60 seconds or more.
C2_RemovesYoungerThanWindow ==
    JustAdded =>
        /\ AddRemovedExactly(FALSE)
        /\ Cardinality(NearNewest(FALSE)) = 1
        /\ NoCloseDuplicates

\* C2 as amended: add removes exactly the entries of the same trimmed text
\* whose age is at most 60 seconds and keeps (up to the maximum size) every
\* other entry, also an entry of the same text older than 60 seconds; two
\* adds of one text at most 60 seconds apart leave one entry of that text,
\* and no two entries of one text are less than 60 seconds apart.
C2_RemovesUpToWindow ==
    /\ JustAdded =>
          /\ AddRemovedExactly(TRUE)
          /\ Cardinality(NearNewest(TRUE)) = 1
    /\ NoCloseDuplicates

\* an add that met an entry of its text aged exactly 60 seconds and removed
\* it, and met another entry, which it kept
C2_Witness ==
    /\ JustAdded
    /\ \E i \in 1..Len(prevHistory) :
          /\ prevHistory[i].query = history[1].query
          /\ history[1].timestamp - prevHistory[i].timestamp = DedupWindow
          /\ \A j \in 1..Len(history) : history[j] # prevHistory[i]
    /\ \E i \in 1..Len(prevHistory) : \E j \in 2..Len(history) :
          history[j] = prevHistory[i]

\* C3: in every reachable state, also right after construction from
\* persisted storage, the log holds at most maxHistorySize entries.
C3_LengthWithinMax == Len(history) <= maxHistorySize

\* C9: after add, remove and clear the stored value is the serialisation of
\* the newest min(50, n) entries of the log, in the log's order.
C9_StorageHoldsNewestFifty ==
    Mutated =>
        /\ storage # Null
        /\ Len(storage.items) = Min2(RecentLimit, Len(history))
        /\ \A i \in 1..Len(storage.items) : storage.items[i] = itemToJson(history[i])

C9_Witness ==
    /\ Mutated
    /\ Len(history) > RecentLimit
    /\ Len(storage.items) = RecentLimit
    /\ storage.items[RecentLimit] = itemToJson(history[RecentLimit])

\* the manager was constructed over the storage its predecessor had just
\* written
Reloaded ==
    /\ lastOp.name = "new"
    /\ steps > 0
    /\ storage = saveToStorage(prevHistory)

Persisted == sliceFirst(prevHistory, RecentLimit)

\* a value that JSON represents as it is
RECURSIVE IsJsonValue(_)
IsJsonValue(v) ==
    CASE v.type \in {"number", "string", "null"} -> TRUE
      [] v.type = "array" -> \A i \in 1..Len(v.items) : IsJsonValue(v.items[i])
      [] v.type = "object" -> \A i \in 1..Len(v.vals) : IsJsonValue(v.vals[i])
      [] OTHER -> FALSE

SameTextTimeAndError(a, b) ==
    /\ a.id = b.id
    /\ a.query = b.query
    /\ a.timestamp = b.timestamp
    /\ a.executionTime = b.executionTime
    /\ Field(a, "error") = Field(b, "error")

-----------------------------------------------------------------------------
(* Storage failures                                                        *)

\* the stored item is nothing or a list of complete history entries
WellFormedStored(stored) ==
    \/ stored = Null
    \/ /\ stored.type = "array"
       /\ \A i \in 1..Len(stored.items) :
             {"id", "query", "timestamp", "executionTime"} \subseteq DOMAIN stored.items[i]

\* C11: storage failures never reach the caller: no operation of the manager
\* throws, whatever the storage does or holds; a manager constructed over an
\* absent or corrupt storage starts with an empty log; and an operation whose
\* write failed still has its in-memory effect.
C11_StorageFailuresContained ==
    /\ ~lastOp.threw
    /\ (lastOp.name = "new" /\ (storageFault = "absent" \/ ~WellFormedStored(storage)))
          => history = <<>>
    /\ lastOp.name = "clear" => history = <<>>
    /\ lastOp.name = "add" => (history # <<>> /\ history[1].query = Stripped(lastOp.query))

-----------------------------------------------------------------------------
(* clear                                                                   *)

\* C12: clear() empties the log and persists the empty state: right after
\* clear() the log is empty and the stored value is the serialisation of the
\* empty list, and a manager constructed next, reloading from that storage,
\* starts with an empty log, whatever preceded the clear.
C12_ClearEmptiesLogAndStorage ==
    /\ lastOp.name = "clear" =>
          (history = <<>> /\ storage = JArr(<<>>))
    /\ (lastOp.name = "new" /\ lastOp.after = "clear") => history = <<>>

\* a manager was constructed right after a clear that persisted the empty
\* list, and starts empty
C12_Witness ==
    /\ lastOp.name = "new"
    /\ lastOp.after = "clear"
    /\ steps = MaxOps
    /\ storage = JArr(<<>>)
    /\ history = <<>>

-----------------------------------------------------------------------------
(* Order of the log                                                        *)

\* the positions of list at which the elements of sub occur, in order
RECURSIVE IsSubsequence(_, _)
IsSubsequence(sub, list) ==
    IF sub = <<>> THEN TRUE
    ELSE IF list = <<>> THEN FALSE
    ELSE IF Head(sub) = Head(list) THEN IsSubsequence(Tail(sub), Tail(list))
    ELSE IsSubsequence(sub, Tail(list))

NewestFirst(list) ==
    \A i \in 1..(Len(list) - 1) : list[i].timestamp >= list[i + 1].timestamp

\* C13: the history list is always newest first, and add(q, t, result,
\* error) places the new entry, carrying the trimmed text of q, the execution
\* time t and the given result and error, at index 0; the entries that remain
\* are entries of the previous list in their previous relative order.
C13_AddPlacesEntryFirst ==
    /\ NewestFirst(history)
    /\ JustAdded =>
          /\ history # <<>>
          /\ history[1].query = Stripped(lastOp.query)
          /\ history[1].timestamp = lastOp.at
          /\ history[1].executionTime = lastOp.executionTime
          /\ history[1].result = lastOp.result
          /\ history[1].error = lastOp.error
          /\ IsSubsequence(Tail(history), prevHistory)

\* an add has put its entry in front of two earlier entries, one of them
\* carrying a failure message
C13_Witness ==
    /\ JustAdded
    /\ Len(history) = 3
    /\ history[1].query = Stripped(lastOp.query)
    /\ Tail(history) = prevHistory
    /\ \E i \in 1..Len(history) : history[i].error # Undefined

-----------------------------------------------------------------------------
(* getAll                                                                  *)

\* C14: getAll() returns an immutable snapshot: after the caller mutated the
\* returned value (its elements, their order, or a field of a returned
\* entry), the log that later getAll(), search() and getRecent() calls read,
\* and that the next save persists, is what it was before.
C14_GetAllSnapshotIsolated ==
    lastOp.name = "callerMutation" => history = prevHistory

-----------------------------------------------------------------------------
(* search                                                                  *)

\* text contains s, letters compared without regard to case
ContainsIgnoringCase(text, s) ==
    \E i \in 0..(Len(text) - Len(s)) : SameIgnoringCase(SubSeq(text, i + 1, i + Len(s)), s)

QueriesOf(list) == [i \in 1..Len(list) |-> list[i].query]

\* C15: search(s) returns exactly the entries of the log whose query text
\* contains s ignoring case, in the order of getAll(), and does not change
\* the log; on a log holding "SELECT * FROM users" and "SELECT * FROM posts",
\* search("user") returns only the first.
C15_SearchReturnsMatchesInOrder ==
    lastOp.name = "search" =>
        /\ ~lastOp.threw
        /\ history = prevHistory
        /\ lastOp.returned =
              SelectSeq(history, LAMBDA e : ContainsIgnoringCase(e.query, lastOp.query))
        /\ (QueriesOf(history) \in {<<Q_SelectFromUsers, Q_SelectFromPosts>>,
                                     <<Q_SelectFromPosts, Q_SelectFromUsers>>}
              /\ lastOp.query = <<"u","s","e","r">>)
              => QueriesOf(lastOp.returned) = <<Q_SelectFromUsers>>

\* search("USERS") on a log holding "SELECT * FROM posts" and, newer,
\* "SELECT * FROM users" returned the second only
C15_Witness ==
    /\ lastOp.name = "search"
    /\ lastOp.query = <<"U","S","E","R","S">>
    /\ QueriesOf(history) = <<Q_SelectFromUsers, Q_SelectFromPosts>>
    /\ QueriesOf(lastOp.returned) = <<Q_SelectFromUsers>>

-----------------------------------------------------------------------------
(* remove                                                                  *)

\* C16: entry ids are pairwise distinct in every reachable state of the log,
\* so remove(id) removes exactly the one entry with that id, leaves every
\* other entry and the order unchanged, persists the result, and leaves the
\* log unchanged when no entry has that id.
C16_RemoveDeletesSingleEntry ==
    /\ \A i, j \in 1..Len(history) : i # j => history[i].id # history[j].id
    /\ lastOp.name = "remove" =>
          /\ IsSubsequence(history, prevHistory)
          /\ lastOp.id \notin IdsOf(history)
          /\ Len(history) = Len(prevHistory) - (IF lastOp.id \in IdsOf(prevHistory) THEN 1 ELSE 0)
          /\ storage = saveToStorage(history)

-----------------------------------------------------------------------------
(* The provider's executeQuery                                             *)

\* the call recorded one entry for its query at the head of the log, in
\* front of entries the log already had
RecordedOnce ==
    /\ history # <<>>
    /\ history[1].query = Stripped(lastOp.query)
    /\ history[1].timestamp = lastOp.at
    /\ IsSubsequence(Tail(history), prevHistory)

\* the entry at the head carries the outcome the caller got: the result that
\* was returned, or the message of the failure that was rethrown
CarriesOutcome ==
    IF lastOp.threw
    THEN history[1].error = JStr(lastOp.message) /\ history[1].result = Undefined
    ELSE history[1].result = lastOp.returned /\ history[1].error = Undefined

\* C17: every query execution attempt made through the provider's
\* executeQuery is recorded once: a success adds one entry carrying the result
\* and returns the result, a failure adds one entry carrying the failure
\* message and rethrows; no attempt is left unrecorded.
C17_EveryAttemptRecordedOnce ==
    lastOp.name = "executeQuery" => (RecordedOnce /\ CarriesOutcome)

\* C17 (amended): once the provider's effect has created the managers, every
\* executeQuery call is recorded once, with its result or its failure message;
\* a call made before that throws 'Database manager not initialized' and
\* records nothing.
C17_AttemptsRecordedOnceMounted ==
    lastOp.name = "executeQuery" =>
        IF provider.managers
        THEN RecordedOnce /\ CarriesOutcome
        ELSE /\ lastOp.threw
             /\ lastOp.message = Msg_NotInitialized
             /\ history = prevHistory

\* a failing execution was recorded, with its message, in front of the entry
\* of an earlier execution
C17_Witness ==
    /\ lastOp.name = "executeQuery"
    /\ provider.managers
    /\ lastOp.threw
    /\ Len(history) = 2
    /\ history[1].error = JStr(lastOp.message)
    /\ Tail(history) = prevHistory

-----------------------------------------------------------------------------
(* Cursor offsets and purity of getSuggestions                             *)

\* clamp(p, 0, len(q))
ClampedOffset(q, p) == IF p < 0 THEN 0 ELSE IF p > Len(q) THEN Len(q) ELSE p

\* C18: for every query q and every offset p, also p < 0 and p > len(q),
\* getSuggestions(q, p) returns a list, the same list as
\* getSuggestions(q, clamp(p, 0, len(q))).
C18_OffsetClamped ==
    Returned =>
        suggestions = getSuggestions(schema, query, ClampedOffset(query, cursorPosition))

\* the call of the test: offset 15 on the 14 characters of "SELECT * FROM "
\* returned the table users
C18_Witness ==
    /\ Returned
    /\ query = Q_SelectStarFrom
    /\ cursorPosition = Len(query) + 1
    /\ Str_users \in {LabelsOfKind(suggestions, "table")[i] :
                        i \in 1..Len(LabelsOfKind(suggestions, "table"))}

\* texts that may follow the cursor
TextsAfter == {<<>>, <<"x">>, <<" ","F","R","O","M"," ","u","s","e","r","s">>}

\* C19: getSuggestions is a pure function of the text before the cursor and
\* of the most recently set snapshot: every query that agrees with the call's
\* query on the text before the cursor gives the list the call returned,
\* whatever follows the cursor; and a call leaves the snapshot as the last
\* updateSchema set it, and a repeated call returns the same list.
C19_PureInTextBeforeAndSnapshot ==
    /\ [](Returned =>
            \A after \in TextsAfter :
                getSuggestions(schema, Before \o after, Len(Before)) = suggestions)
    /\ [][acState' = "returned" =>
            /\ schema' = schema
            /\ suggestions' = getSuggestions(schema, query, cursorPosition)
            /\ acState = "returned" => suggestions' = suggestions]_vars

\* a call with text on both sides of the cursor returned, after the snapshot
\* was set, candidates of that snapshot
C19_Witness ==
    /\ Returned
    /\ schema = SchemaBlog
    /\ 0 < cursorPosition /\ cursorPosition < Len(query)
    /\ AfterFrom(Before)
    /\ ~AfterFrom(query)
    /\ Len(LabelsOfKind(suggestions, "table")) = 2

-----------------------------------------------------------------------------
(* Context flags                                                           *)

\* the flags getContext computes for the text before the cursor of the call
ContextOfCall == getContext(substring(query, 0, cursorPosition))

\* C20: the context flags are not mutually exclusive: there are texts before
\* the cursor (of the call's query or of another query) for which afterFrom
\* and afterJoin are both true.
C20_FromAndJoinBothTrueSomewhere ==
    \E q \in {query} \cup Queries : \E p \in Offsets(q) :
        LET context == getContext(substring(q, 0, p))
        IN  context.afterFrom /\ context.afterJoin

\* C20 (amended): afterFrom and afterJoin are never both true, whatever the
\* text before the cursor (afterFrom needs the last FROM after the last JOIN,
\* afterJoin the last JOIN after the last FROM); nor is afterSelect true
\* together with afterFrom.  Other flags do overlap.
C20_FromAndJoinExclusive ==
    Returned =>
        /\ ~(ContextOfCall.afterFrom /\ ContextOfCall.afterJoin)
        /\ ~(ContextOfCall.afterFrom /\ ContextOfCall.afterSelect)

\* a text with FROM and JOIN before the cursor: afterJoin and afterOn are
\* both true, afterFrom is false
C20_Witness ==
    /\ Returned
    /\ LastOccurrence(Before, KwFROM) >= 0
    /\ LastOccurrence(Before, KwJOIN) >= 0
    /\ ContextOfCall.afterJoin /\ ContextOfCall.afterOn
    /\ ~ContextOfCall.afterFrom

-----------------------------------------------------------------------------
(* HotkeyManager                                                           *)

\* the key string of an event: ctrl (for Ctrl or Meta), alt, shift and the
\* key's name, joined by +
KeyStringOf(event) ==
    LET name == IF event.key = <<"E","n","t","e","r">> THEN <<"e","n","t","e","r">> ELSE toLowerCase(event.key)
        withShift == IF event.shiftKey THEN <<"s","h","i","f","t","+">> \o name ELSE name
        withAlt == IF event.altKey THEN <<"a","l","t","+">> \o withShift ELSE withShift
    IN  IF event.ctrlKey \/ event.metaKey THEN <<"c","t","r","l","+">> \o withAlt ELSE withAlt

\* the calls of register and unregister that named key, letters compared
\* without regard to case
CallsNaming(key) ==
    SelectSeq(hotkeys.calls, LAMBDA c : SameIgnoringCase(c.key, key))

\* the handler currently registered under key: that of the last call naming
\* the key, if that call is a register
CurrentlyRegistered(key) ==
    LET named == CallsNaming(key)
    IN  IF named # <<>> /\ named[Len(named)].op = "register"
        THEN <<named[Len(named)].handler>>
        ELSE <<>>

\* the registrations are those the calls of register and unregister made,
\* whatever calls of enable and disable came between them
RegistrationsAsCalled ==
    \A k \in {toLowerCase(n) : n \in HotkeyNames} :
        CurrentlyRegistered(k) = (IF k \in DOMAIN hotkeys.handlers
                                  THEN <<hotkeys.handlers[k]>> ELSE <<>>)

\* C30: handleKeyDown invokes a handler if and only if the manager is enabled
\* and a handler is currently registered (case-insensitively) under the
\* normalised key string of the event; it invokes at most one handler, the
\* most recently registered one for that key; and disable() and enable()
\* leave the registrations unchanged.
C30_InvokesRegisteredHandlerIffEnabled ==
    /\ RegistrationsAsCalled
    /\ hotkeys.last = "handleKeyDown" =>
          hotkeys.invoked =
              (IF hotkeys.isEnabled THEN CurrentlyRegistered(KeyStringOf(hotkeys.event))
               ELSE <<>>)

\* Meta+Enter invoked the handler registered last under a key written
\* Ctrl+Enter, after an earlier registration in lower case
C30_Witness ==
    /\ hotkeys.last = "handleKeyDown"
    /\ hotkeys.event = KeyEvent(<<"E","n","t","e","r">>, FALSE, TRUE, FALSE)
    /\ Len(hotkeys.calls) >= 2
    /\ hotkeys.calls[Len(hotkeys.calls)] =
          [op |-> "register", key |-> <<"C","t","r","l","+","E","n","t","e","r">>, handler |-> "h2"]
    /\ hotkeys.calls[1].handler = "h1"
    /\ hotkeys.invoked = <<"h2">>

-----------------------------------------------------------------------------
(* QueryBuilder                                                            *)

\* C21: after any sequence of edits, the Ctrl+Enter hotkey runs the text
\* currently in the editor, the same text the Execute button would run.
C21_CtrlEnterRunsCurrentText ==
    editor.last = "hotkey" =>
        editor.ran = (IF trim(editor.query) = <<>> THEN <<>> ELSE <<editor.query>>)

\* the editor was opened with SELECT 1, the text was changed to SELECT 2 and
\* Ctrl+Enter ran SELECT 1
C21_StaleTextRun ==
    /\ editor.last = "hotkey"
    /\ editor.edits > 0
    /\ editor.query = <<"S","E","L","E","C","T"," ","2">>
    /\ editor.ran = <<<<"S","E","L","E","C","T"," ","1">>>>

-----------------------------------------------------------------------------
(* DatabaseManager life cycle                                              *)

\* the manager is as the last call found it
AsLastCallFoundIt ==
    /\ dbm.sqlJs = dbm.last.before.sqlJs
    /\ dbm.db = dbm.last.before.db
    /\ dbm.initialized = dbm.last.before.initialized
    /\ dbm.initCalls = dbm.last.before.initCalls

\* C22: once a call of initialize has succeeded, every later call returns
\* without throwing and without initialising sql.js again, and leaves the
\* library handle and the loaded database unchanged.
C22_InitializeIdempotent ==
    /\ dbm.last.op = "initialize" /\ dbm.last.before.afterSuccess =>
          ~dbm.last.threw /\ AsLastCallFoundIt
    /\ \A i \in 1..Len(dbm.pending) : ~dbm.pending[i].before.afterSuccess

\* initialize was called again after it had succeeded, with a database loaded
C22_Witness ==
    /\ dbm.last.op = "initialize"
    /\ dbm.last.before.afterSuccess
    /\ dbm.last.before.db # 0
    /\ dbm.initCalls = 1

\* the manager holds a database according to the calls completed: some
\* createDatabase or loadDatabase succeeded and no close() came after the
\* last that did
LoadedByCalls ==
    \E i \in 1..Len(dbm.calls) :
        /\ dbm.calls[i].op \in {"createDatabase", "loadDatabase"}
        /\ ~dbm.calls[i].threw
        /\ \A j \in (i + 1)..Len(dbm.calls) : dbm.calls[j].op # "close"

\* C23: isLoaded() is true exactly when the most recent successful
\* createDatabase or loadDatabase has not been followed by close(): false
\* initially, createDatabase before initialization throws and leaves it
\* false, createDatabase after initialize makes it true, close() makes it
\* false and never throws, and getSchema() returns {tables: [], version:
\* '0.0.0'} whenever isLoaded() is false.
C23_IsLoadedFollowsCalls ==
    /\ isLoaded(dbm) <=> LoadedByCalls
    /\ dbm.last.op = "new" => ~isLoaded(dbm)
    /\ dbm.last.op = "createDatabase" /\ dbm.last.before.sqlJs = 0 =>
          dbm.last.threw /\ ~isLoaded(dbm)
    /\ dbm.last.op = "createDatabase" /\ ~dbm.last.threw =>
          isLoaded(dbm) /\ dbm.last.before.sqlJs # 0
    /\ dbm.last.op = "close" => ~dbm.last.threw /\ ~isLoaded(dbm)
    /\ dbm.last.op = "getSchema" /\ ~isLoaded(dbm) =>
          dbm.last.returned = EmptySchemaResult

\* a database was created and closed, and getSchema() was asked after that
C23_Witness ==
    /\ Len(dbm.calls) >= 3
    /\ dbm.calls[Len(dbm.calls) - 1] = [op |-> "createDatabase", threw |-> FALSE]
    /\ dbm.calls[Len(dbm.calls)] = [op |-> "close", threw |-> FALSE]
    /\ dbm.last.op = "getSchema"
    /\ dbm.last.returned = EmptySchemaResult

\* the invocations of initSqlJs that have not settled
InFlight == {i \in 1..Len(dbm.pending) : dbm.pending[i].stage = "init"}

\* C28: sql.js is initialised at most once under every interleaving: while
\* an initialize is pending, initialize and loadDatabase do not invoke
\* initSqlJs again, and all callers use the same library handle.
C28_InitialisedAtMostOnce ==
    /\ Cardinality(InFlight) <= 1
    /\ (\A i \in 1..Len(dbm.calls) : ~dbm.calls[i].threw) => dbm.initCalls <= 1
    /\ Cardinality(dbm.used) <= 1

\* loadDatabase was called while an initialize was pending, and initSqlJs
\* has been invoked twice
C28_SecondInvocation ==
    /\ Len(dbm.pending) = 2
    /\ dbm.pending[1].from = "initialize" /\ dbm.pending[1].stage = "init"
    /\ dbm.pending[2].from = "loadDatabase" /\ dbm.pending[2].stage = "init"
    /\ dbm.initCalls = 2

-----------------------------------------------------------------------------
(* MigrationManager                                                        *)

\* the texts of the migrations in the given order, joined by a blank line
RECURSIVE TextsInOrder(_, _)
TextsInOrder(ms, heading) ==
    IF ms = <<>> THEN <<>>
    ELSE <<heading, ms[1].name, "\n",
           IF heading = "-- Rollback: " THEN ms[1].down ELSE ms[1].up>>
         \o (IF Len(ms) = 1 THEN <<>> ELSE <<"\n\n">> \o TextsInOrder(Tail(ms), heading))

\* the migrations from the last created to the first
LastCreatedFirst ==
    [i \in 1..Len(migrations.created) |->
        migrations.created[Len(migrations.created) + 1 - i]]

\* C26: the SQL generators are read-only: getAll() returns the migrations in
\* creation order, generateMigrationSQL lists them in creation order and
\* generateRollbackSQL in reverse creation order, so two calls of
\* generateRollbackSQL in a row return the same text.
C26_GeneratorsReadOnly ==
    /\ migrations.last.op = "getAll" => migrations.last.returned = migrations.created
    /\ migrations.last.op = "generateMigrationSQL" =>
          migrations.last.returned = TextsInOrder(migrations.created, "-- Migration: ")
    /\ migrations.last.op = "generateRollbackSQL" =>
          /\ migrations.last.returned = TextsInOrder(LastCreatedFirst, "-- Rollback: ")
          /\ migrations.last.before \in {<<>>, <<migrations.last.returned>>}

\* generateRollbackSQL was called twice in a row on two migrations and the
\* second text lists them in creation order
C26_SecondRollbackDiffers ==
    /\ migrations.last.op = "generateRollbackSQL"
    /\ Len(migrations.created) = 2
    /\ migrations.last.before # <<>>
    /\ migrations.last.before # <<migrations.last.returned>>
    /\ migrations.last.returned = TextsInOrder(migrations.created, "-- Rollback: ")

-----------------------------------------------------------------------------
(* Candidate lists                                                         *)

\* C24: getSuggestions never returns the same candidate twice: no two
\* elements of the returned list have the same label and the same type.
C24_NoCandidateTwice ==
    Returned =>
        \A i \in 1..Len(suggestions) : \A j \in 1..Len(suggestions) :
            (suggestions[i].label = suggestions[j].label
             /\ suggestions[i].type = suggestions[j].type) => i = j

\* the keyword NOT is returned twice for a word that begins with NO, with no
\* snapshot set
C24_KeywordTwice ==
    /\ Returned
    /\ schema = Null
    /\ SameIgnoringCase(currentWordOf(Before), <<"N","O">>)
    /\ Len(SelectSeq(suggestions,
             LAMBDA s : s.label = <<"N","O","T">> /\ s.type = "keyword")) = 2

\* the column id is returned twice when the text names two tables that both
\* have a column id
C24_ColumnTwice ==
    /\ Returned
    /\ schema = SchemaBlog
    /\ Len(SelectSeq(suggestions,
             LAMBDA s : s.label = <<"i","d">> /\ s.type = "column")) = 2

-----------------------------------------------------------------------------
(* Whole words                                                             *)

\* the index of the last occurrence of w in s as a whole word (no word
\* character next to it on either side), letters compared without regard to
\* case; -1 if there is none
LastWholeWord(s, w) ==
    LET occ == {i \in 0..(Len(s) - Len(w)) :
                   /\ SameIgnoringCase(SubSeq(s, i + 1, i + Len(w)), w)
                   /\ (i = 0 \/ ~IsWordChar(s[i]))
                   /\ (i + Len(w) = Len(s) \/ ~IsWordChar(s[i + Len(w) + 1]))}
    IN  IF occ = {} THEN -1 ELSE CHOOSE i \in occ : \A j \in occ : j <= i

\* the context flags computed from whole words only
WholeWordContext(s) ==
    LET lastSelect == LastWholeWord(s, KwSELECT)
        lastFrom == LastWholeWord(s, KwFROM)
        lastJoin == LastWholeWord(s, KwJOIN)
        lastWhere == LastWholeWord(s, KwWHERE)
        lastOn == LastWholeWord(s, KwON)
    IN  [afterSelect |-> lastSelect > lastFrom /\ lastSelect > lastJoin,
         afterFrom |-> lastFrom > lastSelect /\ lastFrom > lastJoin,
         afterJoin |-> lastJoin > lastFrom,
         afterWhere |-> lastWhere > lastFrom,
         afterOn |-> lastOn > lastJoin]

\* the kinds of candidate in a list
KindsOf(list) == {list[i].type : i \in 1..Len(list)}

\* C25: SELECT, FROM, JOIN, WHERE and ON are recognised only where they
\* occur as whole words before the cursor: an identifier that merely contains
\* one of them (ON inside locations) does not change the context flags, and
\* so does not change which kinds of candidate are eligible.
C25_KeywordsAsWholeWords ==
    Returned =>
        /\ ContextOfCall = WholeWordContext(Before)
        /\ ("column" \in KindsOf(suggestions) =>
               LET context == WholeWordContext(Before)
               IN  context.afterSelect \/ context.afterWhere \/ context.afterOn)
        /\ ("table" \in KindsOf(suggestions) =>
               LET context == WholeWordContext(Before)
               IN  context.afterFrom \/ context.afterJoin)

\* after SELECT * FROM locations, where ON occurs only inside the table name,
\* afterOn is true and columns are returned next to the tables
C25_OnInsideLocations ==
    /\ Returned
    /\ query = <<"S","E","L","E","C","T"," ","*"," ","F","R","O","M"," ","l","o","c","a","t","i","o","n","s"," ">>
    /\ cursorPosition = Len(query)
    /\ schema = SchemaUsers
    /\ LastWholeWord(Before, KwON) = -1
    /\ ContextOfCall.afterOn
    /\ KindsOf(suggestions) = {"keyword", "table", "column"}

-----------------------------------------------------------------------------
(* The provider's queryHistory                                             *)

\* the provider operations that touch the history
TouchesHistory == lastOp.name \in {"executeQuery", "addToHistory", "clearHistory"}

-----------------------------------------------------------------------------
(* Share links                                                             *)

\* C29: share links round-trip: for every query string q (the empty string
\* and strings with non-ASCII or URL-special characters included) and every
\* base URL, decodeFromUrl(generateShareLink(q, base)) returns q.
C29_ShareLinkRoundTrip ==
    share.link # <<>> => share.decoded = <<share.query>>

\* the link of aa~ on a plain origin decodes to aa
C29_TildeLost ==
    /\ share.link = <<<<"h","t","t","p","s",":","/","/","e","x","a","m","p","l","e",".","c","o","m","?","q","u","e","r","y","=","Y","W","F","+">>>>
    /\ share.query = <<"a", "a", "~">>
    /\ share.decoded = <<<<"a", "a">>>>

\* the link of the empty query decodes to null
C29_EmptyQueryNull ==
    /\ share.link = <<<<"h","t","t","p","s",":","/","/","e","x","a","m","p","l","e",".","c","o","m","?","q","u","e","r","y","=">>>>
    /\ share.query = <<>>
    /\ share.decoded = <<>>

\* a query with a space and a non-ASCII character does round-trip
C29_NonAsciiKept ==
    /\ share.link # <<>>
    /\ share.baseUrl = <<"h","t","t","p","s",":","/","/","e","x","a","m","p","l","e",".","c","o","m">>
    /\ share.query = <<"a", " ", E_acute>>
    /\ share.decoded = <<share.query>>

====
